---- MODULE Spec2Model ----
(***************************************************************************)
(* Model of the precompiled template formatter of                          *)
(* packages/core/src/utils/resources.ts (BaseFormatter, lines 1038-1780,   *)
(* BaseFormatterRegexBuilder, ModifierConstants, ComparatorConstants).     *)
(*                                                                         *)
(* Strings of the program are TLA+ strings; positions are the 0-based      *)
(* JavaScript indices of the source, so every offset computation of the    *)
(* compiler is the source's own arithmetic.                                *)
(***************************************************************************)
EXTENDS Integers, Sequences, FiniteSets, TLC

(***************************************************************************)
(* JavaScript string primitives used by the source.                        *)
(***************************************************************************)

\* the least element of a finite set of integers, d when it is empty
MinOr(S, d) == IF S = {} THEN d ELSE CHOOSE x \in S : \A y \in S : x <= y
\* the greatest element, d when it is empty
MaxOr(S, d) == IF S = {} THEN d ELSE CHOOSE x \in S : \A y \in S : x >= y
Min(S) == MinOr(S, 0)
Max(S) == MaxOr(S, 0)

\* s[i] / s.charAt(i): the empty string when i is out of range
CharAt(s, i) == IF i >= 0 /\ i < Len(s) THEN SubSeq(s, i + 1, i + 1) ELSE ""

\* relative index resolution of String.prototype.slice
ClampIndex(n, len) ==
  IF n < 0 THEN (IF len + n < 0 THEN 0 ELSE len + n)
  ELSE IF n > len THEN len ELSE n

\* the characters x..y-1 of s, for resolved indices
Between(s, x, y) == IF x >= y THEN "" ELSE SubSeq(s, x + 1, y)

\* s.slice(a, b)
Slice(s, a, b) == Between(s, ClampIndex(a, Len(s)), ClampIndex(b, Len(s)))

\* s.slice(a) / s.substring(a) for a >= 0
SliceFrom(s, a) == Between(s, ClampIndex(a, Len(s)), Len(s))

\* s.startsWith(lit, p)
StartsWithAt(s, p, lit) ==
  p >= 0 /\ p + Len(lit) <= Len(s) /\ SubSeq(s, p + 1, p + Len(lit)) = lit

\* s.indexOf(needle): -1 when absent
IndexOf(s, needle) == MinOr({p \in 0..Len(s) : StartsWithAt(s, p, needle)}, -1)

\* s.lastIndexOf(needle): -1 when absent
LastIndexOf(s, needle) == MaxOr({p \in 0..Len(s) : StartsWithAt(s, p, needle)}, -1)

\* s.includes(needle)
Includes(s, needle) == \E p \in 0..Len(s) : StartsWithAt(s, p, needle)

\* the regular-expression class \s (the white space the model's inputs use)
IsWS(c) == c \in {" ", "\t", "\n"}

\* what the regular-expression atom `.` refuses: a line terminator
IsLineTerminator(c) == c = "\n"

RECURSIVE ConcatRange(_, _, _)
\* pieces[lo] + ... + pieces[hi], halving the range
ConcatRange(pieces, lo, hi) ==
  IF lo > hi THEN ""
  ELSE IF lo = hi THEN pieces[lo]
  ELSE ConcatRange(pieces, lo, (lo + hi) \div 2)
       \o ConcatRange(pieces, (lo + hi) \div 2 + 1, hi)

\* pieces.join('')
JoinAll(pieces) == ConcatRange(pieces, 1, Len(pieces))

\* the elements of a finite set of integers in ascending order
SortedSeq(S) ==
  [k \in 1..Cardinality(S) |-> CHOOSE n \in S : Cardinality({m \in S : m < n}) = k - 1]

UpperAlpha == "ABCDEFGHIJKLMNOPQRSTUVWXYZ"
LowerAlpha == "abcdefghijklmnopqrstuvwxyz"
Digits == "0123456789"

\* is c one of the characters of the string alphabet
IsIn(c, alphabet) == Len(c) = 1 /\ Includes(alphabet, c)

\* the lower-case letter of each upper-case letter, and the converse
LowerOf ==
  [A |-> "a", B |-> "b", C |-> "c", D |-> "d", E |-> "e", F |-> "f",
   G |-> "g", H |-> "h", I |-> "i", J |-> "j", K |-> "k", L |-> "l",
   M |-> "m", N |-> "n", O |-> "o", P |-> "p", Q |-> "q", R |-> "r",
   S |-> "s", T |-> "t", U |-> "u", V |-> "v", W |-> "w", X |-> "x",
   Y |-> "y", Z |-> "z"]
UpperOf ==
  [a |-> "A", b |-> "B", c |-> "C", d |-> "D", e |-> "E", f |-> "F",
   g |-> "G", h |-> "H", i |-> "I", j |-> "J", k |-> "K", l |-> "L",
   m |-> "M", n |-> "N", o |-> "O", p |-> "P", q |-> "Q", r |-> "R",
   s |-> "S", t |-> "T", u |-> "U", v |-> "V", w |-> "W", x |-> "X",
   y |-> "Y", z |-> "Z"]

\* the character c mapped by the table, c itself when the table has no entry
MapChar(c, table) == IF c \in DOMAIN table THEN table[c] ELSE c

\* s with every character mapped by the table
MapString(s, table) == JoinAll([k \in 1..Len(s) |-> MapChar(SubSeq(s, k, k), table)])

\* s.toLowerCase()
ToLowerCase(s) == MapString(s, LowerOf)

\* s.toUpperCase()
ToUpperCase(s) == MapString(s, UpperOf)

\* s.replace(/\s+/g, '')
RemoveAllWS(s) ==
  JoinAll([k \in 1..Len(s) |-> IF IsWS(SubSeq(s, k, k)) THEN "" ELSE SubSeq(s, k, k)])

\* the position after a greedy \s* that starts at p
SkipWS(s, p) ==
  IF p < 0 \/ p >= Len(s) THEN p
  ELSE CHOOSE q \in p..Len(s) :
         /\ ~IsWS(CharAt(s, q))
         /\ \A k \in p..(q - 1) : IsWS(CharAt(s, k))

\* s.trimStart()
TrimStart(s) == Between(s, SkipWS(s, 0), Len(s))

\* s.trimEnd()
TrimEnd(s) == SubSeq(s, 1, MaxOr({k \in 1..Len(s) : ~IsWS(SubSeq(s, k, k))}, 0))

\* s.trim()
Trim(s) == TrimEnd(TrimStart(s))

\* /\s/.test(s)
HasWS(s) == \E p \in 0..(Len(s) - 1) : IsWS(CharAt(s, p))

\* /\S/.test(s)
HasNonWS(s) == \E p \in 0..(Len(s) - 1) : ~IsWS(CharAt(s, p))

\* no line terminator in s[a..b-1]: what `.*` may run over
DotRun(s, a, b) == \A k \in a..(b - 1) : ~IsLineTerminator(CharAt(s, k))

\* the set of the elements of a sequence
SeqToSet(seq) == {seq[n] : n \in 1..Len(seq)}


(***************************************************************************)
(* Vocabulary: the namespace shape and the modifier / comparator tables.   *)
(* Key sequences are in Object.keys order, which is the order of the       *)
(* alternatives in the patterns built from them.                           *)
(***************************************************************************)

\* keys of convertStreamToParseValue({}): what the constructor hands to the
\* regex builder
HardcodedShape ==
  << [key |-> "config", fields |-> <<"addonName">>],
     [key |-> "stream",
      fields |-> <<"filename", "folderName", "size", "folderSize", "library",
                   "quality", "resolution", "languages", "uLanguages",
                   "languageEmojis", "uLanguageEmojis", "languageCodes",
                   "uLanguageCodes", "smallLanguageCodes",
                   "uSmallLanguageCodes", "wedontknowwhatakilometeris",
                   "uWedontknowwhatakilometeris", "visualTags", "audioTags",
                   "releaseGroup", "regexMatched", "encode", "audioChannels",
                   "indexer", "seeders", "year", "type", "title", "season",
                   "seasons", "episode", "seasonEpisode", "duration",
                   "infoHash", "age", "message", "proxied">>],
     [key |-> "addon", fields |-> <<"name", "presetId", "manifestUrl">>],
     [key |-> "service", fields |-> <<"id", "shortName", "name", "cached">>],
     [key |-> "tools", fields |-> <<"removeline", "newline">>],
     [key |-> "debug", fields |-> <<"modifier", "comparator", "json", "jsonf">>] >>

StringModifierKeys ==
  <<"upper", "lower", "title", "length", "reverse", "base64", "string">>
NumberModifierKeys ==
  <<"comma", "hex", "octal", "binary", "bytes", "bytes10", "bytes2", "string", "time">>
ArrayModifierKeys ==
  <<"join", "length", "first", "last", "random", "sort", "reverse">>
ExactConditionalKeys == <<"istrue", "isfalse", "exists">>
PrefixConditionalKeys == <<"$", "^", "~", "=", ">=", ">", "<=", "<">>
ComparatorKeys == <<"and", "or", "xor", "neq", "equal", "left", "right">>

\* the quote pairs of the four replace(...) patterns, in key order
ReplaceQuotePairs == << <<"'", "'">>, <<"\"", "'">>, <<"'", "\"">>, <<"\"", "\"">> >>
\* the quotes of the two join(...) patterns, in key order
JoinQuotes == <<"'", "\"">>

\* insertion order of the keys of an object built by spreading: a repeated key
\* keeps its first position
Dedup(seq) ==
  [k \in 1..Cardinality(SeqToSet(seq)) |->
     seq[SortedSeq({n \in 1..Len(seq) : \A m \in 1..(n - 1) : seq[m] # seq[n]})[k]]]

\* the keys of ModifierConstants.modifiers that are plain names (the patterns
\* of hardcodedModifiersForRegexMatching come before them)
PlainModifierKeys ==
  Dedup(StringModifierKeys \o NumberModifierKeys \o ArrayModifierKeys
        \o ExactConditionalKeys \o PrefixConditionalKeys)

modifierPrefix == "::"
comparatorWrapper == "::"
checkTFSplit == "\"||\""
TZLocales ==
  <<"UTC", "GMT", "EST", "PST", "en-US", "en-GB", "Europe/London", "America/New_York">>

\* one alternative of the modifier pattern: kind "replace" (q1, q2),
\* "join" (q1), "lazy" (k: a prefix followed by .+?) or "name" (k)
ModifierAlternatives ==
  [n \in 1..4 |-> [kind |-> "replace", k |-> "replace(",
                   q1 |-> ReplaceQuotePairs[n][1], q2 |-> ReplaceQuotePairs[n][2]]]
  \o [n \in 1..2 |-> [kind |-> "join", k |-> "join(",
                      q1 |-> JoinQuotes[n], q2 |-> JoinQuotes[n]]]
  \o [n \in 1..Len(PrefixConditionalKeys) |->
        [kind |-> "lazy", k |-> PrefixConditionalKeys[n], q1 |-> "", q2 |-> ""]]
  \o [n \in 1..Len(PlainModifierKeys) |->
        [kind |-> "name", k |-> PlainModifierKeys[n], q1 |-> "", q2 |-> ""]]

(***************************************************************************)
(* Matching.  A position is the number of characters consumed.  A match of *)
(* one alternative of the modifier pattern is a pair <<r1, e>>: e is the   *)
(* position at which it ends and r1 the end of its first lazy group (0     *)
(* when it has one group at most), so that the match the backtracking      *)
(* engine finds first is the least pair of the first alternative that has  *)
(* one (alternatives in order, lazy quantifiers shortest first), while an  *)
(* anchored match may use any of them.                                     *)
(***************************************************************************)

\* is tuple a before or equal to tuple b in the lexicographic order
LexLE(a, b) ==
  \E k \in 1..(Len(a) + 1) :
    /\ \A j \in 1..(k - 1) : a[j] = b[j]
    /\ (k = Len(a) + 1 \/ a[k] < b[k])

\* the least tuple of a non-empty set
LexLeast(M) == CHOOSE m \in M : \A x \in M : LexLE(m, x)

\* the position of the first character after position p that is not white
\* space: where the token after \s* sits
NextToken(s, p) == SkipWS(s, p + 1)

\* \s*?,\s*? after the closing quote at r1: the position of the character
\* that follows, -1 when there is no comma
ArgSeparatorEnd(s, r1) ==
  IF CharAt(s, NextToken(s, r1)) = "," THEN NextToken(s, NextToken(s, r1)) ELSE -1

\* the matches of replace(Q1 .*? Q1 \s*? , \s*? Q2 .*? Q2) whose first
\* argument closes at r1 and whose second opens at p2
ReplaceMatchesFor(s, r1, p2, a) ==
  IF p2 < 0 \/ CharAt(s, p2) # a.q2 THEN {}
  ELSE {<<r1, r2 + 2>> :
          r2 \in {r \in (p2 + 1)..(Len(s) - 2) :
                    StartsWithAt(s, r, a.q2 \o ")") /\ DotRun(s, p2 + 1, r)}}

\* the matches of alternative a of the modifier pattern started at q (after
\* the ::), a0 being the position after its key and opening quote
AltMatchesFrom(s, q, a0, a) ==
  CASE a.kind = "name" -> {<<0, a0>>}
    [] a.kind = "lazy" -> {<<0, e>> : e \in {x \in (a0 + 1)..Len(s) : DotRun(s, a0, x)}}
    [] a.kind = "join" ->
         {<<0, r + 2>> :
            r \in {x \in a0..(Len(s) - 2) :
                     StartsWithAt(s, x, a.q1 \o ")") /\ DotRun(s, a0, x)}}
    [] a.kind = "replace" ->
         UNION {ReplaceMatchesFor(s, r1, ArgSeparatorEnd(s, r1), a) :
                  r1 \in {r \in a0..(Len(s) - 1) :
                            CharAt(s, r) = a.q1 /\ DotRun(s, a0, r)}}

\* the matches of alternative a started at q
AltMatches(s, q, a) ==
  IF StartsWithAt(s, q, a.k \o a.q1)
  THEN AltMatchesFrom(s, q, q + Len(a.k) + Len(a.q1), a) ELSE {}

\* buildModifierRegexPattern applied at p: the matches of each alternative
\* of ::(?:alt1|alt2|...)
ModifierMatches(s, p) ==
  [n \in 1..Len(ModifierAlternatives) |->
     IF StartsWithAt(s, p, modifierPrefix)
     THEN AltMatches(s, p + Len(modifierPrefix), ModifierAlternatives[n]) ELSE {}]

\* (?=::|$) when term, nothing otherwise
TerminatorOk(s, e, term) == ~term \/ e = Len(s) \/ StartsWithAt(s, e, modifierPrefix)

\* the matches after which the terminator holds
Terminated(byAlt, s, term) ==
  [n \in DOMAIN byAlt |-> {m \in byAlt[n] : TerminatorOk(s, m[2], term)}]

\* the end the matcher finds first, -1 when no alternative matches
FirstEnd(byAlt) ==
  IF \A n \in DOMAIN byAlt : byAlt[n] = {} THEN -1
  ELSE LexLeast(byAlt[MinOr({n \in DOMAIN byAlt : byAlt[n] # {}}, 1)])[2]

\* every end an anchored match may use
AllEnds(byAlt) == UNION {{m[2] : m \in byAlt[n]} : n \in DOMAIN byAlt}

\* the end of the match of the modifier pattern at p, -1 when there is none
ModifierMatchEnd(s, p, term) == FirstEnd(Terminated(ModifierMatches(s, p), s, term))

\* every end of ::(?:alt1|alt2|...) at p
ModifierEnds(s, p) == AllEnds(ModifierMatches(s, p))

\* buildComparatorRegexPattern applied at p: ::(?:and|or|...)::, -1 when
\* none (no two alternatives match at one position)
ComparatorMatchEnd(s, p) ==
  MinOr({p + Len(comparatorWrapper \o ComparatorKeys[n] \o comparatorWrapper) :
           n \in {x \in 1..Len(ComparatorKeys) :
                    StartsWithAt(s, p, comparatorWrapper \o ComparatorKeys[x]
                                       \o comparatorWrapper)}}, -1)

RECURSIVE MatchesFrom(_, _)
\* the successive matches <<start, end>> of a global pattern from p on;
\* ends[q] is the end of its match at q, -1 when it does not match there (an
\* empty match that ends where the last one did is passed over)
MatchesFrom(ends, p) ==
  LET q == MinOr({x \in DOMAIN ends : x >= p /\ ends[x] >= 0 /\ ends[x] # p}, -1)
  IN IF q < 0 THEN <<>> ELSE << <<q, ends[q]>> >> \o MatchesFrom(ends, ends[q])

\* s.split(pattern in a capture group): the text between the matches and the
\* text of each match, alternating
SplitAt(s, ms) ==
  [n \in 1..(2 * Len(ms) + 1) |->
     IF n % 2 = 0 THEN Between(s, ms[n \div 2][1], ms[n \div 2][2])
     ELSE Between(s, IF n = 1 THEN 0 ELSE ms[(n - 1) \div 2][2],
                  IF n = 2 * Len(ms) + 1 THEN Len(s) ELSE ms[(n + 1) \div 2][1])]

\* the successive matches of the modifier pattern in s
ModifierMatchList(s, term) ==
  MatchesFrom([q \in 0..(Len(s) - 1) |-> ModifierMatchEnd(s, q, term)], 0)

\* the successive matches of the comparator pattern in subject
ComparatorMatchList(subject) ==
  MatchesFrom([q \in 0..(Len(subject) - 1) |-> ComparatorMatchEnd(subject, q)], 0)

\* s.split(new RegExp('(' + buildModifierRegexPattern() + ')'))
SplitOnModifiers(s) == SplitAt(s, ModifierMatchList(s, FALSE))

\* s.split(new RegExp('(' + buildComparatorRegexPattern() + ')', flags)); ci
\* is the i flag
SplitOnComparators(s, ci) ==
  SplitAt(s, ComparatorMatchList(IF ci THEN ToLowerCase(s) ELSE s))

\* the lower-cased keys of the sections, in key order (the Set sectionKeys)
SectionKeysLower(shape) == [n \in 1..Len(shape) |-> ToLowerCase(shape[n].key)]

\* shape[sectionKey]: the fields of the section whose key is exactly k
\* (<<>> when no section has that key: the property lookup gives undefined)
SectionFields(shape, k) ==
  IF \E n \in 1..Len(shape) : shape[n].key = k
  THEN shape[MaxOr({n \in 1..Len(shape) : shape[n].key = k}, 1)].fields ELSE <<>>

\* does seq repeat an element when letter case is ignored
RepeatsIgnoringCase(seq) ==
  \E m, n \in 1..Len(seq) : m < n /\ ToLowerCase(seq[m]) = ToLowerCase(seq[n])

\* the two throws of buildVariableRegexPattern: a section key, or a field key
\* of one section, repeated when letter case is ignored
HasCaseInsensitiveDuplicate(shape) ==
  \/ RepeatsIgnoringCase([n \in 1..Len(shape) |-> shape[n].key])
  \/ \E x \in 1..Len(shape) :
       RepeatsIgnoringCase(SectionFields(shape, ToLowerCase(shape[x].key)))

\* a variant of VariableNames in which stream.doesnotexist is a variable the
\* pattern accepts although the namespace has no such field
VariableNamesWithUnknown(shape) ==
  {"stream.doesnotexist"}
  \cup UNION {{ToLowerCase(shape[n].key \o "." \o f) :
                 f \in SeqToSet(SectionFields(shape, ToLowerCase(shape[n].key)))} :
                n \in 1..Len(shape)}

\* the texts section.field that buildVariableRegexPattern accepts, lower-cased
\* (the expression pattern carries the i flag)
VariableNames(shape) ==
  UNION {{ToLowerCase(shape[n].key \o "." \o f) :
            f \in SeqToSet(SectionFields(shape, ToLowerCase(shape[n].key)))} :
           n \in 1..Len(shape)}

\* buildVariableRegexPattern: every end of (sec\.(f1|f2|...)|...) at p, on a
\* lower-cased subject
VariableEnds(s, p, shape) ==
  {p + Len(v) : v \in {x \in VariableNames(shape) : StartsWithAt(s, p, x)}}

\* every end of a modifier, or of a comparator and a variable, at p: one more
\* step of  variable(modifier)* (comparator variable(modifier)*)*
ExpressionStep(s, p, shape) ==
  ModifierEnds(s, p) \cup VariableEnds(s, ComparatorMatchEnd(s, p), shape)

RECURSIVE ExpressionStar(_, _, _, _)
\* continue from the positions of `new` that were not seen
ExpressionGrow(s, new, seen, shape) == ExpressionStar(s, new \ seen, seen, shape)

\* the positions reachable from `frontier` by steps of the expression
ExpressionStar(s, frontier, seen, shape) ==
  IF frontier = {} THEN seen
  ELSE ExpressionGrow(s, UNION {ExpressionStep(s, p, shape) : p \in frontier},
                      seen \cup frontier, shape)

\* buildTZLocaleRegexPattern: ends of ::(UTC|GMT|...) at p (lower-cased subject)
TZLocaleEnds(s, p) ==
  {p + Len(modifierPrefix \o TZLocales[n]) :
     n \in {x \in 1..Len(TZLocales) :
              StartsWithAt(s, p, modifierPrefix \o ToLowerCase(TZLocales[x]))}}

\* the positions of b, and those after an optional locale
WithLocale(s, b) == b \cup UNION {TZLocaleEnds(s, p) : p \in b}

\* the positions of a lower-cased subject s at which the suffix group of
\*   ^\{ vam (cmp vam)* (?<suffix> (tz)? (check)? ) \}$
\* may start, the optional locale taken or not
SuffixStarts(s, shape) ==
  IF StartsWithAt(s, 0, "{")
  THEN WithLocale(s, ExpressionStar(s, VariableEnds(s, 1, shape), {}, shape))
  ELSE {}

\* buildCheckRegexPattern followed by \}$ at p.  checkTFSplit is spliced into
\* the pattern unescaped, so its two bars are alternation bars:
\*   \[( "(.*)" | (empty) | "(.*)" )\]\}$
CheckSuffixMatches(s, p) ==
  /\ StartsWithAt(s, p, "[")
  /\ \/ /\ StartsWithAt(s, p + 1, "\"")
        /\ StartsWithAt(s, Len(s) - 3, "\"]}")
        /\ Len(s) - 3 >= p + 2
        /\ DotRun(s, p + 2, Len(s) - 3)
     \/ /\ StartsWithAt(s, p + 1, "]}")
        /\ p + 3 = Len(s)

\* does the suffix group that starts at p run to the end of s
SuffixMatches(s, p) ==
  (p = Len(s) - 1 /\ CharAt(s, p) = "}") \/ CheckSuffixMatches(s, p)

\* does some position of P start a suffix group that ends s
SomeSuffixMatches(s, P) == \E p \in P : SuffixMatches(s, p)

\* buildRegexExpression: does the whole of str match the pattern, which
\* carries the i flag
MatchesExpression(str, shape) ==
  SomeSuffixMatches(ToLowerCase(str), SuffixStarts(ToLowerCase(str), shape))

(***************************************************************************)
(* The conditional-suffix pattern of compileTemplateHelper and the         *)
(* REMOVE WHITESPACE step.                                                 *)
(***************************************************************************)

\* after the closing quote of the false text at e:  \s*\]\s*\}$
CheckTailOk(s, e) ==
  /\ CharAt(s, e) = "\""
  /\ CharAt(s, NextToken(s, e)) = "]"
  /\ CharAt(s, NextToken(s, NextToken(s, e))) = "}"
  /\ NextToken(s, NextToken(s, e)) = Len(s) - 1

\* the start of the false text when a, b and c are the positions of the
\* three tokens after the true text, -1 when they are not | | "
CheckFalseStartAt(s, a, b, c) ==
  IF CharAt(s, a) = "|" /\ CharAt(s, b) = "|" /\ CharAt(s, c) = "\""
  THEN c + 1 ELSE -1

\* after the closing quote of the true text at t:  \s*\|\s*\|\s*" ; the
\* start of the false text, -1 when that does not match
CheckFalseStart(s, t) ==
  CheckFalseStartAt(s, NextToken(s, t), NextToken(s, NextToken(s, t)),
                    NextToken(s, NextToken(s, NextToken(s, t))))

\* the start of the true text after the `[` at p:  \[\s*"
CheckTrueStart(s, p) == NextToken(s, p) + 1

\* is  [ at p, true text t0..t, false text f0..e  a match of the pattern
CheckTFMatchOk(s, p, t0, t, f0, e) ==
  /\ CharAt(s, t0 - 1) = "\""
  /\ t >= t0 /\ DotRun(s, t0, t)
  /\ f0 >= 0
  /\ e >= f0 /\ DotRun(s, f0, e)
  /\ CheckTailOk(s, e)

\* the positions of s that hold the character c
CharPositions(s, c) == {p \in 0..(Len(s) - 1) : CharAt(s, p) = c}

\* the matches of /\[\s*"(.*?)"\s*\|\s*\|\s*"(.*?)"\s*\]\s*\}$/ in s: the
\* positions of the bracket and of the quotes that close the two texts
CheckTFMatches(s) ==
  {m \in CharPositions(s, "[") \X CharPositions(s, "\"") \X CharPositions(s, "\"") :
     CheckTFMatchOk(s, m[1], CheckTrueStart(s, m[1]), m[2],
                    CheckFalseStart(s, m[2]), m[3])}

\* the groups of the match m
CheckTFGroups(s, m) ==
  [found |-> TRUE, all |-> SliceFrom(s, m[1]),
   true |-> Between(s, CheckTrueStart(s, m[1]), m[2]),
   false |-> Between(s, CheckFalseStart(s, m[2]), m[3])]

\* the match the engine finds among M: the leftmost, each lazy text the
\* shortest
CheckTFResult(s, M) ==
  IF M = {} THEN [found |-> FALSE, all |-> "", true |-> "", false |-> ""]
  ELSE CheckTFGroups(s, LexLeast(M))

\* potentialVariableTemplate.match(/\[\s*"(?<mod_check_true>.*?)"\s*\|\s*\|
\* \s*"(?<mod_check_false>.*?)"\s*\]\s*\}$/): [found, all (match[0]), true,
\* false]
MatchCheckTF(s) == CheckTFResult(s, CheckTFMatches(s))

\* the pieces of one variable and its modifiers: white space leaves the
\* variable name, the modifiers are trimmed
StripPieces(byMod) ==
  JoinAll([n \in 1..Len(byMod) |->
             Trim(IF n = 1 THEN RemoveAllWS(byMod[n]) ELSE byMod[n])])

\* the REMOVE WHITESPACE step on the pieces the comparators separate
StripAll(byCmp) ==
  JoinAll([n \in 1..Len(byCmp) |-> StripPieces(SplitOnModifiers(byCmp[n]))])

\* the REMOVE WHITESPACE step: globalVariableTemplate from
\* variableTemplateWhitespace
RemoveTemplateWhitespace(vtw) == StripAll(SplitOnComparators(vtw, FALSE))

(***************************************************************************)
(* Values.  A field value or a modifier result is a record tagged with its *)
(* JavaScript type: t is "string" (s), "number" (n, a natural), "boolean"  *)
(* (b), "array" (a, of strings), "null" or "undefined".                    *)
(***************************************************************************)

StrV(x) == [t |-> "string", s |-> x, n |-> 0, b |-> FALSE, a |-> <<>>, ref |-> ""]
NumV(x) == [t |-> "number", s |-> "", n |-> x, b |-> FALSE, a |-> <<>>, ref |-> ""]
BoolV(x) == [t |-> "boolean", s |-> "", n |-> 0, b |-> x, a |-> <<>>, ref |-> ""]
\* ref names the array object: === on two arrays compares references
ArrV(x, r) == [t |-> "array", s |-> "", n |-> 0, b |-> FALSE, a |-> x, ref |-> r]
NullV == [t |-> "null", s |-> "", n |-> 0, b |-> FALSE, a |-> <<>>, ref |-> ""]
UndefinedV == [t |-> "undefined", s |-> "", n |-> 0, b |-> FALSE, a |-> <<>>, ref |-> ""]
\* an exception in flight, s being its message
ThrowV(msg) == [t |-> "throw", s |-> msg, n |-> 0, b |-> FALSE, a |-> <<>>, ref |-> ""]

\* the characters of the model's inputs with their UTF-16 code units
AsciiLow ==
  " !\"#$%&'()*+,-./0123456789:;<=>?@ABCDEFGHIJKLMNOPQRSTUVWXYZ[\\]^_"
AsciiHigh == "abcdefghijklmnopqrstuvwxyz{|}~"
\* c.charCodeAt(0)
CharCode(c) ==
  IF Includes(AsciiLow, c) THEN IndexOf(AsciiLow, c) + 32
  ELSE IF Includes(AsciiHigh, c) THEN IndexOf(AsciiHigh, c) + 97
  ELSE IF c = "\t" THEN 9 ELSE 10

\* the first place at which two strings differ, 0 when one is a prefix of the
\* other
FirstDiff(x, y) ==
  MinOr({k \in 1..Len(x) : k <= Len(y) /\ SubSeq(x, k, k) # SubSeq(y, k, k)}, 0)

\* the order of two strings that first differ at d
StrLessAt(x, y, d) ==
  IF d = 0 THEN Len(x) < Len(y)
  ELSE CharCode(SubSeq(x, d, d)) < CharCode(SubSeq(y, d, d))

\* a < b on two strings: by code units
StrLess(x, y) == StrLessAt(x, y, FirstDiff(x, y))

RadixDigits == "0123456789abcdef"

RECURSIVE NumToRadix(_, _)
\* n.toString(radix) for a natural n
NumToRadix(n, radix) ==
  IF n < radix THEN CharAt(RadixDigits, n)
  ELSE NumToRadix(n \div radix, radix) \o CharAt(RadixDigits, n % radix)

\* n.toString()
NumToString(n) == NumToRadix(n, 10)

\* arr.join(sep)
JoinWith(arr, sep) ==
  JoinAll([k \in 1..Len(arr) |-> IF k = 1 THEN arr[k] ELSE sep \o arr[k]])

\* value.toString() and the template-literal text of a value ("null" and "undefined" for the
\* template literal; the callers that use ?. handle those two first)
ToStr(v) ==
  CASE v.t = "string" -> v.s
    [] v.t = "number" -> NumToString(v.n)
    [] v.t = "boolean" -> IF v.b THEN "true" ELSE "false"
    [] v.t = "array" -> JoinWith(v.a, ",")
    [] v.t = "null" -> "null"
    [] OTHER -> "undefined"

\* JavaScript truthiness (an array is an object: always truthy)
Truthy(v) ==
  CASE v.t = "string" -> v.s # ""
    [] v.t = "number" -> v.n # 0
    [] v.t = "boolean" -> v.b
    [] v.t = "array" -> TRUE
    [] OTHER -> FALSE

RECURSIVE ParseDigits(_, _)
\* the value of a run of decimal digits, acc being the value so far
ParseDigits(s, acc) ==
  IF s = "" THEN acc
  ELSE ParseDigits(Tail(s), acc * 10 + IndexOf(Digits, Head(s)))

\* Number(x) for a trimmed string
ToNumberTrimmed(x) ==
  IF x = "" THEN [nan |-> FALSE, n |-> 0]
  ELSE IF \A k \in 0..(Len(x) - 1) : IsIn(CharAt(x, k), Digits)
  THEN [nan |-> FALSE, n |-> ParseDigits(x, 0)]
  ELSE [nan |-> TRUE, n |-> 0]

\* Number(s) for the strings of the model: white space is trimmed, the empty
\* string is 0, a run of decimal digits is its value, anything else is NaN
ToNumber(s) == ToNumberTrimmed(Trim(s))

\* s.replace(/,\s/g, '')
RemoveCommaWS(s) ==
  JoinAll([k \in 1..Len(s) |->
             IF \/ (SubSeq(s, k, k) = "," /\ IsWS(CharAt(s, k)))
                \/ (IsWS(SubSeq(s, k, k)) /\ CharAt(s, k - 2) = ",")
             THEN "" ELSE SubSeq(s, k, k)])

\* value.split('').reverse().join('')
ReverseStr(s) == JoinAll([k \in 1..Len(s) |-> SubSeq(s, Len(s) + 1 - k, Len(s) + 1 - k)])

\* the pieces of s between the positions of cuts
SplitAtCuts(s, cuts) ==
  [k \in 1..(Len(cuts) + 1) |->
     Between(s, IF k = 1 THEN 0 ELSE cuts[k - 1] + 1,
             IF k = Len(cuts) + 1 THEN Len(s) ELSE cuts[k])]

\* s.split(ch) for a one-character separator
SplitOnChar(s, ch) == SplitAtCuts(s, SortedSeq(CharPositions(s, ch)))

\* word.charAt(0).toUpperCase() + word.slice(1) of a lower-cased word
Capitalize(l) == ToUpperCase(CharAt(l, 0)) \o SliceFrom(l, 1)

\* the words, each lower-cased and capitalized
CapitalizeAll(words) == [n \in 1..Len(words) |-> Capitalize(ToLowerCase(words[n]))]

\* stringModifiers.title
TitleCase(s) == JoinWith(CapitalizeAll(SplitOnChar(s, " ")), " ")

Base64Alphabet ==
  "ABCDEFGHIJKLMNOPQRSTUVWXYZabcdefghijklmnopqrstuvwxyz0123456789+/"

\* the four characters that encode the bytes b1, b2, b3, of which n exist
Base64Group(n, b1, b2, b3) ==
  CharAt(Base64Alphabet, b1 \div 4)
  \o CharAt(Base64Alphabet, (b1 % 4) * 16 + (b2 \div 16))
  \o (IF n > 1 THEN CharAt(Base64Alphabet, (b2 % 16) * 4 + (b3 \div 64)) ELSE "=")
  \o (IF n > 2 THEN CharAt(Base64Alphabet, b3 % 64) ELSE "=")

\* the code unit of s at position i, 0 past its end
ByteAt(s, i) == IF i < Len(s) THEN CharCode(CharAt(s, i)) ELSE 0

\* the encoding btoa gives a string of code units below 256
Base64Encode(s) ==
  JoinAll([g \in 1..((Len(s) + 2) \div 3) |->
             Base64Group(Len(s) - 3 * (g - 1), ByteAt(s, 3 * g - 3),
                         ByteAt(s, 3 * g - 2), ByteAt(s, 3 * g - 1))])

RECURSIVE InsertSorted(_, _)
InsertSorted(x, sorted) ==
  IF sorted = <<>> THEN <<x>>
  ELSE IF StrLess(x, Head(sorted)) THEN <<x>> \o sorted
  ELSE <<Head(sorted)>> \o InsertSorted(x, Tail(sorted))

RECURSIVE SortStrings(_)
\* [...value].sort(): ascending by code units, equal elements in order
SortStrings(arr) ==
  IF arr = <<>> THEN <<>>
  ELSE InsertSorted(arr[Len(arr)], SortStrings(SubSeq(arr, 1, Len(arr) - 1)))

\* [...value].reverse()
ReverseSeq(arr) == [n \in 1..Len(arr) |-> arr[Len(arr) + 1 - n]]


(***************************************************************************)
(* Modifiers: ModifierConstants and applySingleModifier.                   *)
(***************************************************************************)

\* s.endsWith(lit)
EndsWith(s, lit) == StartsWithAt(s, Len(s) - Len(lit), lit)

RECURSIVE GroupThousands(_)
\* value.toLocaleString() of a natural (en-US grouping), from its digits
GroupThousands(digits) ==
  IF Len(digits) <= 3 THEN digits
  ELSE GroupThousands(Slice(digits, 0, Len(digits) - 3)) \o ","
       \o SliceFrom(digits, Len(digits) - 3)

\* formatBytes(value, k) is imported from outside these sources: kept as an
\* uninterpreted rendering of its two arguments
FormatBytes(value, k) == "bytes(" \o NumToString(value) \o "," \o NumToString(k) \o ")"
\* formatDuration(value), imported likewise
FormatDuration(value) == "duration(" \o NumToString(value) \o ")"

\* ModifierConstants.stringModifiers[mod](value)
StringModifier(mod, value) ==
  CASE mod = "upper" -> ToUpperCase(value)
    [] mod = "lower" -> ToLowerCase(value)
    [] mod = "title" -> TitleCase(value)
    [] mod = "length" -> NumToString(Len(value))
    [] mod = "reverse" -> ReverseStr(value)
    [] mod = "base64" -> Base64Encode(value)
    [] mod = "string" -> value

\* ModifierConstants.arrayModifierGetOrDefault
arrayModifierGetOrDefault(value, i) == IF Len(value) > 0 THEN value[i + 1] ELSE ""

\* Math.random() is rnd / RandomRange for a drawn rnd in 0..(RandomRange - 1)
RandomRange == 2

\* ModifierConstants.arrayModifiers[mod](value)?.toString()
ArrayModifier(mod, value, rnd) ==
  CASE mod = "join" -> JoinWith(value, ", ")
    [] mod = "length" -> NumToString(Len(value))
    [] mod = "first" -> arrayModifierGetOrDefault(value, 0)
    [] mod = "last" -> arrayModifierGetOrDefault(value, Len(value) - 1)
    [] mod = "random" ->
         arrayModifierGetOrDefault(value, (rnd * Len(value)) \div RandomRange)
    [] mod = "sort" -> JoinWith(SortStrings(value), ",")
    [] mod = "reverse" -> JoinWith(ReverseSeq(value), ",")

\* ModifierConstants.numberModifiers[mod](value)
NumberModifier(mod, value) ==
  CASE mod = "comma" -> GroupThousands(NumToString(value))
    [] mod = "hex" -> NumToRadix(value, 16)
    [] mod = "octal" -> NumToRadix(value, 8)
    [] mod = "binary" -> NumToRadix(value, 2)
    [] mod = "bytes" -> FormatBytes(value, 1000)
    [] mod = "bytes10" -> FormatBytes(value, 1000)
    [] mod = "bytes2" -> FormatBytes(value, 1024)
    [] mod = "string" -> NumToString(value)
    [] mod = "time" -> FormatDuration(value)

\* ModifierConstants.conditionalModifiers.exact.exists
exists(value) ==
  CASE value.t \in {"undefined", "null"} -> FALSE
    [] value.t = "string" -> HasNonWS(value.s)
    [] value.t = "array" -> Len(value.a) > 0
    [] OTHER -> TRUE

\* ModifierConstants.conditionalModifiers.exact[mod](value)
ExactConditional(mod, value) ==
  CASE mod = "istrue" -> value.t = "boolean" /\ value.b
    [] mod = "isfalse" -> value.t = "boolean" /\ ~value.b
    [] mod = "exists" -> exists(value)

\* Object.keys(prefix).sort((a, b) => b.length - a.length): longest first,
\* keys of one length in key order
PrefixKeysByLength ==
  SelectSeq(PrefixConditionalKeys, LAMBDA k : Len(k) = 2)
  \o SelectSeq(PrefixConditionalKeys, LAMBDA k : Len(k) = 1)

\* .find((key) => mod.startsWith(key)) on the keys sorted by length
LongestPrefix(mod) ==
  PrefixKeysByLength[Min({n \in 1..Len(PrefixKeysByLength) :
                            StartsWithAt(mod, 0, PrefixKeysByLength[n])})]

\* ModifierConstants.conditionalModifiers.prefix[modPrefix](value, check) on
\* two numbers (numeric) or two strings
PrefixConditional(modPrefix, numeric, nv, nc, sv, sc) ==
  CASE modPrefix = "$" -> StartsWithAt(sv, 0, sc)
    [] modPrefix = "^" -> EndsWith(sv, sc)
    [] modPrefix = "~" -> Includes(sv, sc)
    [] modPrefix = "=" -> IF numeric THEN nv = nc ELSE sv = sc
    [] modPrefix = ">=" -> IF numeric THEN nv >= nc ELSE ~StrLess(sv, sc)
    [] modPrefix = ">" -> IF numeric THEN nv > nc ELSE StrLess(sc, sv)
    [] modPrefix = "<=" -> IF numeric THEN nv <= nc ELSE ~StrLess(sc, sv)
    [] modPrefix = "<" -> IF numeric THEN nv < nc ELSE StrLess(sv, sc)

\* stringCheck: white space leaves the check when the value has none
PrefixCheckText(stringValue, rest) ==
  IF ~HasWS(stringValue) THEN RemoveAllWS(rest) ELSE rest

\* the comparison on the parsed numbers nv, nc and the strings sv, sc
PrefixCompare(modPrefix, nv, nc, sv, sc) ==
  PrefixConditional(modPrefix,
                    modPrefix \in {"<", "<=", ">", ">=", "="} /\ ~nv.nan /\ ~nc.nan,
                    nv.n, nc.n, sv, sc)

\* the comparison of stringValue with stringCheck
PrefixOn(modPrefix, sv, sc) ==
  PrefixCompare(modPrefix, ToNumber(RemoveCommaWS(sv)), ToNumber(RemoveCommaWS(sc)),
                sv, sc)

\* the comparison of stringValue with what follows modPrefix in mod
PrefixWith(modPrefix, sv, mod) ==
  PrefixOn(modPrefix, sv,
           PrefixCheckText(sv, ToLowerCase(SliceFrom(mod, Len(modPrefix)))))

\* the PREFIX branch of applySingleModifier (mod is lower-cased)
PrefixBranch(variable, mod) ==
  PrefixWith(LongestPrefix(mod), ToLowerCase(ToStr(variable)), mod)

\* the characters between two resolved indices, swapped when x > y
BetweenEither(s, x, y) == IF x <= y THEN Between(s, x, y) ELSE Between(s, y, x)

\* s.substring(a, b): arguments clamped to 0..length and swapped when a > b
Substring(s, a, b) ==
  BetweenEither(s, ClampIndex(MaxOr({a, 0}, 0), Len(s)),
                ClampIndex(MaxOr({b, 0}, 0), Len(s)))

\* first characters with which new RegExp(findStartChar + '\\s*,\\s*' + findEndChar)
\* is not a pattern: the constructor throws a SyntaxError
InvalidPatternStart == {"(", ")", "[", "*", "+", "?"}

\* the position after a greedy c* that starts at p
SkipChar(s, p, c) ==
  IF p < 0 \/ p >= Len(s) THEN p
  ELSE CHOOSE q \in p..Len(s) :
         /\ CharAt(s, q) # c
         /\ \A k \in p..(q - 1) : CharAt(s, k) = c

\* \s*,\s* and findEndChar with the comma expected at a and findEndChar at
\* b: the position after findEndChar, -1 when they are not there
SeparatorEndAt(content, h, a, b, findEndChar) ==
  IF h >= 0 /\ CharAt(content, a) = "," /\ CharAt(content, b) = findEndChar
  THEN b + 1 ELSE -1

\* the end of \s*,\s* findEndChar matched at h, -1 when h is -1 or it does
\* not match
SeparatorEnd(content, h, findEndChar) ==
  SeparatorEndAt(content, h, SkipWS(content, h), NextToken(content, SkipWS(content, h)),
                 findEndChar)

\* the end of findStartChar matched at p as the pattern syntax reads it
\* (. any character, ^ and $ assertions), -1 when it does not match
StartCharEnd(content, p, findStartChar) ==
  CASE findStartChar = "." ->
         IF p < Len(content) /\ ~IsLineTerminator(CharAt(content, p)) THEN p + 1 ELSE -1
    [] findStartChar = "^" -> IF p = 0 THEN p ELSE -1
    [] findStartChar = "$" -> IF p = Len(content) THEN p ELSE -1
    [] OTHER -> IF CharAt(content, p) = findStartChar THEN p + 1 ELSE -1

\* the end of a match at p of the pattern findStartChar \s*,\s* findEndChar,
\* -1 when it does not match there (| is an empty first alternative, and a
\* backslash escapes itself, leaving s*,\s* behind it)
ReplaceSeparatorEnd(content, p, findStartChar, findEndChar) ==
  CASE findStartChar = "|" -> p
    [] findStartChar = "\\" ->
         SeparatorEndAt(content, IF CharAt(content, p) = "\\" THEN p ELSE -1,
                        SkipChar(content, p + 1, "s"),
                        NextToken(content, SkipChar(content, p + 1, "s")), findEndChar)
    [] OTHER -> SeparatorEnd(content, StartCharEnd(content, p, findStartChar), findEndChar)

\* the pieces of a split whose pattern has no capture group
OddPieces(pieces) == [k \in 1..((Len(pieces) + 1) \div 2) |-> pieces[2 * k - 1]]

\* content.split(new RegExp(findStartChar + '\\s*,\\s*' + findEndChar))
SplitOnReplaceSeparator(content, findStartChar, findEndChar) ==
  OddPieces(SplitAt(content,
    MatchesFrom([q \in 0..(Len(content) - 1) |->
                   ReplaceSeparatorEnd(content, q, findStartChar, findEndChar)], 0)))

\* value.replaceAll(key, replaceKey) for a non-empty key (replaceKey without
\* $ patterns)
ReplaceAll(value, key, replaceKey) ==
  JoinWith(OddPieces(SplitAt(value,
    MatchesFrom([q \in 0..(Len(value) - 1) |->
                   IF StartsWithAt(value, q, key) THEN q + Len(key) ELSE -1], 0))),
    replaceKey)

\* the replacement when content splits into parts
ReplaceResult(variable, content, parts) ==
  IF content # "" /\ Len(parts) >= 2 /\ (Len(parts) = 2 \/ parts[3] = "")
     /\ parts[1] # "" /\ parts[2] # ""
  THEN StrV(ReplaceAll(variable, parts[1], parts[2]))
  ELSE UndefinedV

\* the replacement for the two characters read from mod and the text between
\* the parentheses
ReplaceOn(variable, findStartChar, findEndChar, content) ==
  IF findStartChar \in InvalidPatternStart
  THEN ThrowV("SyntaxError: Invalid regular expression")
  ELSE ReplaceResult(variable, content,
                     SplitOnReplaceSeparator(content, findStartChar, findEndChar))

\* the replace( case of applySingleModifier: a thrown SyntaxError, the
\* replaced string, or undefined
ReplaceBranch(variable, mod, modAsWritten) ==
  ReplaceOn(variable, CharAt(mod, Len("replace(") + 1),
            CharAt(mod, Len(mod) - Len(")") - 1),
            Substring(modAsWritten, Len("replace('"), Len(modAsWritten) - Len("')")))

\* is mod one of the keys
IsKey(mod, keys) == mod \in SeqToSet(keys)

\* is mod  name( ... )
IsCall(mod, name) == StartsWithAt(mod, 0, name \o "(") /\ EndsWith(mod, ")")

\* the CONDITIONAL MODIFIERS branch of applySingleModifier
ConditionalBranch(variable, mod) ==
  BoolV(IF ~exists(variable) THEN FALSE
        ELSE IF IsKey(mod, ExactConditionalKeys) THEN ExactConditional(mod, variable)
        ELSE PrefixBranch(variable, mod))

\* the branch of applySingleModifier for a string variable
StringBranch(variable, mod, modAsWritten) ==
  IF IsKey(mod, StringModifierKeys) THEN StrV(StringModifier(mod, variable.s))
  ELSE IF IsCall(mod, "replace") THEN ReplaceBranch(variable.s, mod, modAsWritten)
  ELSE UndefinedV

\* the branch of applySingleModifier for an array variable
ArrayBranch(variable, mod, modAsWritten, rnd) ==
  IF IsKey(mod, ArrayModifierKeys) THEN StrV(ArrayModifier(mod, variable.a, rnd))
  ELSE IF IsCall(mod, "join")
  THEN StrV(JoinWith(variable.a,
                     Substring(modAsWritten, Len("join('"),
                               Len(modAsWritten) - Len("')"))))
  ELSE UndefinedV

\* the branch of applySingleModifier for a number variable
NumberBranch(variable, mod) ==
  IF IsKey(mod, NumberModifierKeys) THEN StrV(NumberModifier(mod, variable.n))
  ELSE UndefinedV

\* applySingleModifier on the lower-cased mod
ApplyLowered(variable, mod, modAsWritten, rnd) ==
  IF \/ IsKey(mod, ExactConditionalKeys)
     \/ \E key \in SeqToSet(PrefixConditionalKeys) : StartsWithAt(mod, 0, key)
  THEN ConditionalBranch(variable, mod)
  ELSE CASE variable.t = "string" -> StringBranch(variable, mod, modAsWritten)
         [] variable.t = "array" -> ArrayBranch(variable, mod, modAsWritten, rnd)
         [] variable.t = "number" -> NumberBranch(variable, mod)
         [] OTHER -> UndefinedV

\* applySingleModifier(variable, mod): a string or boolean value, undefined,
\* or the exception that leaves it; rnd is the draw of Math.random
applySingleModifier(variable, modAsWritten, rnd) ==
  ApplyLowered(variable, ToLowerCase(modAsWritten), modAsWritten, rnd)


(***************************************************************************)
(* Evaluation: parseModifiedVariable and parseVariable.  A ResolvedVariable*)
(* is { result } or { error }; kind "throw" stands for an exception that   *)
(* leaves the resolver instead of a ResolvedVariable.                      *)
(***************************************************************************)

Result(v) == [kind |-> "result", result |-> v, error |-> ""]
Error(e) == [kind |-> "error", result |-> UndefinedV, error |-> e]
Thrown(msg) == [kind |-> "throw", result |-> UndefinedV, error |-> msg]

\* find(keys, key): the first key equal to `key` once lower-cased, "" for
\* undefined
find(keys, key) ==
  IF \E n \in 1..Len(keys) : key = ToLowerCase(keys[n])
  THEN keys[MinOr({n \in 1..Len(keys) : key = ToLowerCase(keys[n])}, 1)]
  ELSE ""

\* baseString.split('.')[0]
BeforeFirstDot(s) == Between(s, 0, MinOr(CharPositions(s, "."), Len(s)))

\* baseString.split(new RegExp('[^a-zA-Z]'))[0]
LeadingLetters(s) ==
  Between(s, 0, MinOr({p \in 0..Len(s) : ~IsIn(CharAt(s, p), UpperAlpha \o LowerAlpha)},
                      Len(s)))

\* the modifier names of the matches ms: each match without its ::
ModifierNames(s, ms) ==
  [k \in 1..Len(ms) |-> Between(s, ms[k][1] + Len(modifierPrefix), ms[k][2])]

\* [...allModifiers.matchAll(singleValidModRe)] mapped to the modifier names:
\* the pattern is built without the i flag and ends with (?=::|$)
MatchAllModifiers(allModifiers) ==
  ModifierNames(allModifiers, ModifierMatchList(allModifiers, TRUE))

\* the error of the APPLY MULTIPLE MODIFIERS loop, by typeof property
UnknownModifierError(property, lastModMatched) ==
  CASE property.t \in {"string", "number", "boolean"} ->
         "{unknown_" \o property.t \o "_modifier(" \o lastModMatched \o ")}"
    [] property.t \in {"null", "array"} ->
         "{unknown_array_modifier(" \o lastModMatched \o ")}"
    [] OTHER -> "{unknown_modifier(" \o lastModMatched \o ")}"

RECURSIVE ApplyModifiers(_, _, _, _)
\* one turn of the APPLY MULTIPLE MODIFIERS loop, r being what
\* applySingleModifier gave for the first of sortedModMatches
ApplyNext(property, r, sortedModMatches, rnd) ==
  IF r.t = "throw" THEN Thrown(r.s)
  ELSE IF r.t = "undefined"
  THEN Error(UnknownModifierError(property, Head(sortedModMatches)))
  ELSE ApplyModifiers(property, r, Tail(sortedModMatches), rnd)

\* the APPLY MULTIPLE MODIFIERS loop from `result` on
ApplyModifiers(property, result, sortedModMatches, rnd) ==
  IF sortedModMatches = <<>> THEN Result(result)
  ELSE ApplyNext(property, applySingleModifier(result, Head(sortedModMatches), rnd),
                 sortedModMatches, rnd)

\* parseModifiedVariable once propertyName is found
ParseProperty(afterType, variableType, propertyName, parseValue) ==
  IF propertyName = ""
  THEN Error("{unknown_propertyName(" \o variableType \o ".undefined)}")
  ELSE ApplyModifiers(parseValue.fields[variableType \o "." \o propertyName],
                      parseValue.fields[variableType \o "." \o propertyName],
                      MatchAllModifiers(SliceFrom(afterType, Len(propertyName))),
                      parseValue.rnd)

\* parseModifiedVariable once variableType is found
ParseTyped(baseString, variableType, shape, parseValue) ==
  IF variableType = "" THEN Error("{unknown_variableType(undefined)}")
  ELSE ParseProperty(
         SliceFrom(baseString, Len(variableType) + Len(".")), variableType,
         find(SectionFields(shape, variableType),
              ToLowerCase(LeadingLetters(
                SliceFrom(baseString, Len(variableType) + Len("."))))),
         parseValue)

\* parseModifiedVariable(baseString)(parseValue)
parseModifiedVariable(baseString, shape, parseValue) ==
  ParseTyped(baseString,
             find([n \in 1..Len(shape) |-> shape[n].key],
                  ToLowerCase(BeforeFirstDot(baseString))),
             shape, parseValue)

\* ComparatorConstants.comparatorKeyToFuncs[key](v1, v2)
comparatorKeyToFuncs(key, v1, v2) ==
  LET and == IF Truthy(v1) THEN v2 ELSE v1
      or == IF Truthy(v1) THEN v1 ELSE v2
  IN CASE key = "and" -> and
       [] key = "or" -> or
       [] key = "xor" -> IF Truthy(or) THEN BoolV(~Truthy(and)) ELSE or
       [] key = "neq" -> BoolV(v1 # v2)
       [] key = "equal" -> BoolV(v1 = v2)
       [] key = "left" -> v1
       [] key = "right" -> v2

\* one call of the reducer (compareKey as written: a key that is no property
\* of comparatorKeyToFuncs makes the call a TypeError)
ReduceStep(prev, cur, compareKey) ==
  IF prev.kind = "error" THEN prev
  ELSE IF cur.kind = "error" THEN cur
  ELSE IF compareKey \notin SeqToSet(ComparatorKeys)
  THEN Error("{unable_to_compare(<" \o ToStr(prev.result) \o ">::"
             \o compareKey \o "::<" \o ToStr(cur.result)
             \o ">, TypeError: comparatorFn is not a function)}")
  ELSE Result(comparatorKeyToFuncs(compareKey, prev.result, cur.result))

RECURSIVE ReduceResolved(_, _, _)
\* resolvedVariables.reduce(...): prev is the accumulator, rest the elements
\* not yet visited, keys the comparator keys between them
ReduceResolved(prev, rest, keys) ==
  IF rest = <<>> THEN prev
  ELSE ReduceResolved(ReduceStep(prev, Head(rest), Head(keys)), Tail(rest), Tail(keys))

\* a variant of CheckTrueFalse that picks the branch by the truthiness of the
\* value instead of refusing a value that is not boolean
CheckByTruthiness(resolved, trueText, falseText) ==
  IF resolved.kind = "throw" THEN resolved
  ELSE IF resolved.kind = "result"
  THEN Result(StrV(IF Truthy(resolved.result) THEN trueText ELSE falseText))
  ELSE Error("{cannot_coerce_boolean_for_check_from(" \o ToStr(resolved.result) \o ")}")

\* the CHECK TRUE/FALSE wrapper of parseVariable around a resolved variable
CheckTrueFalse(resolved, trueText, falseText) ==
  IF resolved.kind = "throw" THEN resolved
  ELSE IF resolved.kind = "result" /\ resolved.result.t = "boolean"
  THEN Result(StrV(IF resolved.result.b THEN trueText ELSE falseText))
  ELSE Error("{cannot_coerce_boolean_for_check_from(" \o ToStr(resolved.result) \o ")}")

\* the comparator keys among the pieces of the split
ComparatorsOf(split) ==
  [k \in 1..((Len(split) - 1) \div 2) |->
     Slice(split[2 * k], Len(comparatorWrapper), 0 - Len(comparatorWrapper))]

\* the resolved variables of the segments among the pieces of the split
ResolveSegments(split, shape, parseValue) ==
  [k \in 1..((Len(split) + 1) \div 2) |->
     parseModifiedVariable(split[2 * k - 1], shape, parseValue)]

\* the reduction of the resolved variables, or the exception one of them threw
ReduceAll(resolvedVariables, comparators) ==
  IF \E k \in 1..Len(resolvedVariables) : resolvedVariables[k].kind = "throw"
  THEN resolvedVariables[MinOr({k \in 1..Len(resolvedVariables) :
                                  resolvedVariables[k].kind = "throw"}, 1)]
  ELSE ReduceResolved(resolvedVariables[1], Tail(resolvedVariables), comparators)

\* the reduction of the pieces of the split
ReduceSplit(split, shape, parseValue) ==
  ReduceAll(ResolveSegments(split, shape, parseValue), ComparatorsOf(split))

\* the COMPARATOR logic of parseVariable: the resolved variables of the
\* segments reduced by the comparators between them
ReducedResolvedVariable(modifiedVariable, shape, parseValue) ==
  ReduceSplit(SplitOnComparators(modifiedVariable, TRUE), shape, parseValue)

\* the resolved variable with its conditional suffix applied, when it has one
WithCheck(reduced, hasCheck, trueText, falseText) ==
  IF hasCheck THEN CheckTrueFalse(reduced, trueText, falseText) ELSE reduced

\* parseVariable(modifiedVariable, { mod_check })(parseValue)
parseVariable(modifiedVariable, hasCheck, trueText, falseText, shape, parseValue) ==
  WithCheck(ReducedResolvedVariable(modifiedVariable, shape, parseValue),
            hasCheck, trueText, falseText)


(***************************************************************************)
(* Compilation: compileTemplateHelper.  A compiled node is what the        *)
(* closure getResolvedVariable captures, with the insertedIndex it is      *)
(* listed under; matched is the text (potentialVariableTemplate) it was    *)
(* recognised from.                                                        *)
(***************************************************************************)

PLACEHOLDER == "X"

\* c.repeat(n)
Repeat(c, n) == JoinAll([k \in 1..n |-> c])

RECURSIVE CountWhitespaceRemoved(_, _, _, _, _, _)
\* the loop that fills numWhitespaceRemovedBeforeN, for n from lo to hi,
\* entered with m and numWhitespaceRemoved: the entries written (entry n at
\* position n + 1 of the sequence) and the two counters at the end; the
\* iterations run in order, first half then second half
CountWhitespaceRemoved(globalVariableTemplate, variableTemplateWhitespace, lo, hi, m, removed) ==
  IF lo > hi THEN [entries |-> <<>>, m |-> m, removed |-> removed]
  ELSE IF lo = hi
  THEN LET skip == \/ m >= Len(globalVariableTemplate)
                   \/ CharAt(globalVariableTemplate, m)
                        # CharAt(variableTemplateWhitespace, lo)
           removed1 == IF skip THEN removed + 1 ELSE removed
       IN [entries |-> <<removed1>>, m |-> IF skip THEN m ELSE m + 1,
           removed |-> removed1]
  ELSE LET mid == (lo + hi) \div 2
           left == CountWhitespaceRemoved(globalVariableTemplate,
                                          variableTemplateWhitespace,
                                          lo, mid, m, removed)
           right == CountWhitespaceRemoved(globalVariableTemplate,
                                           variableTemplateWhitespace,
                                           mid + 1, hi, left.m, left.removed)
       IN [entries |-> left.entries \o right.entries, m |-> right.m,
           removed |-> right.removed]

\* getMatches: the stack position j (1-based; 0 for null) of the first `{`,
\* from the top of the stack down, whose span up to i is an expression
getMatches(str, i, leftBracketIndices, shape) ==
  MaxOr({j \in 1..Len(leftBracketIndices) :
           MatchesExpression(RemoveAllWS(Slice(str, leftBracketIndices[j], i + 1)),
                             shape)}, 0)

\* fn.insertedIndex lies inside the span of the expression being compiled
IsNestedIn(fn, leftBracketIndex, variableTemplateWhitespace, checkSuffix) ==
  /\ leftBracketIndex < fn.insertedIndex
  /\ fn.insertedIndex
       < leftBracketIndex + Len("{" \o variableTemplateWhitespace \o checkSuffix \o "}")

\* relativeTrueIndex
RelativeTrueIndex(checkTF) ==
  IndexOf(checkTF.all, "\"" \o checkTF.true \o "\"") + Len("\"")

\* relativeFalseIndex
RelativeFalseIndex(checkTF) ==
  LastIndexOf(checkTF.all, "\"" \o checkTF.false \o "\"") + Len("\"")

\* offsetFromVariable
OffsetFromVariable(checkTF) == IF checkTF.found THEN RelativeTrueIndex(checkTF) ELSE 0

\* offsetFromTrueCase
OffsetFromTrueCase(checkTF) ==
  IF checkTF.found
  THEN RelativeFalseIndex(checkTF) - (RelativeTrueIndex(checkTF) + Len(checkTF.true))
  ELSE 0

\* variableTemplateWhitespace: the text between the `{` and the suffix
VariableTemplateWhitespace(potentialVariableTemplate, checkTF) ==
  Slice(potentialVariableTemplate, Len("{"),
        0 - Len(IF checkTF.found THEN checkTF.all ELSE "}"))

\* the text standing for the conditional suffix in the nesting test
CheckSuffix(checkTF) ==
  IF checkTF.found
  THEN Repeat("_", OffsetFromVariable(checkTF)) \o checkTF.true
       \o Repeat("_", OffsetFromTrueCase(checkTF)) \o checkTF.false \o "\"]"
  ELSE ""

\* nestedVariablesWIndices: the compiled functions that lie inside the span,
\* last compiled first
NestedVariablesWIndices(compiledVariableTemplateFns, leftBracketIndex,
                        variableTemplateWhitespace, checkSuffix) ==
  ReverseSeq(SelectSeq(compiledVariableTemplateFns,
                       LAMBDA fn : IsNestedIn(fn, leftBracketIndex,
                                              variableTemplateWhitespace, checkSuffix)))

\* the node, from the texts the compiler derived
NodeOf(potentialVariableTemplate, leftBracketIndex, checkTF,
       variableTemplateWhitespace, globalVariableTemplate, nested) ==
  [insertedIndex |-> leftBracketIndex,
   leftBracketIndex |-> leftBracketIndex,
   matched |-> potentialVariableTemplate,
   variableTemplateWhitespace |-> variableTemplateWhitespace,
   globalVariableTemplate |-> globalVariableTemplate,
   hasCheck |-> checkTF.found,
   true |-> checkTF.true,
   false |-> checkTF.false,
   offsetFromVariable |-> OffsetFromVariable(checkTF),
   offsetFromTrueCase |-> OffsetFromTrueCase(checkTF),
   numWhitespaceRemovedBeforeN |->
     CountWhitespaceRemoved(globalVariableTemplate, variableTemplateWhitespace,
                            0, Len(variableTemplateWhitespace) - 1, 0, 0).entries,
   nested |-> nested]

\* the node, once the variable text is separated from the suffix
CompileVariable(potentialVariableTemplate, leftBracketIndex, checkTF,
                variableTemplateWhitespace, compiledVariableTemplateFns) ==
  NodeOf(potentialVariableTemplate, leftBracketIndex, checkTF,
         variableTemplateWhitespace,
         RemoveTemplateWhitespace(variableTemplateWhitespace),
         NestedVariablesWIndices(compiledVariableTemplateFns, leftBracketIndex,
                                 variableTemplateWhitespace, CheckSuffix(checkTF)))

\* the node, once the conditional suffix is looked for
CompileChecked(potentialVariableTemplate, leftBracketIndex, checkTF,
               compiledVariableTemplateFns) ==
  CompileVariable(potentialVariableTemplate, leftBracketIndex, checkTF,
                  VariableTemplateWhitespace(potentialVariableTemplate, checkTF),
                  compiledVariableTemplateFns)

\* the text of the expression str[leftBracketIndex .. i]
PotentialVariableTemplate(str, i, leftBracketIndex) == Slice(str, leftBracketIndex, i + 1)

\* the node compiled for the expression str[leftBracketIndex .. i], the `}` at
\* i having matched; its children are taken from compiledVariableTemplateFns
CompileNode(str, i, leftBracketIndex, compiledVariableTemplateFns) ==
  CompileChecked(PotentialVariableTemplate(str, i, leftBracketIndex), leftBracketIndex,
                 MatchCheckTF(PotentialVariableTemplate(str, i, leftBracketIndex)),
                 compiledVariableTemplateFns)

\* the state of the scan of one template before its first iteration
ScanInit(str) ==
  [str |-> str, i |-> -1, leftBracketIndices |-> <<>>,
   compiledVariableTemplateFns |-> <<>>]

\* the scan is over: ++i < str.length fails
ScanDone(c) == c.i + 1 >= Len(c.str)

\* a variant of ScanReplace that records the node and leaves the span in the
\* working string, resuming the scan just before its `{`
ScanReplaceKeepingSpan(c, i, j, node) ==
  [c EXCEPT !.i = node.leftBracketIndex - 1,
            !.leftBracketIndices = SubSeq(@, 1, j - 1),
            !.compiledVariableTemplateFns = <<node>>]

\* the end of an iteration that compiled `node` for the `{` at stack
\* position j: the span becomes the placeholder, the scan resumes on it
ScanReplace(c, i, j, node) ==
  [str |-> Slice(c.str, 0, node.leftBracketIndex) \o PLACEHOLDER
           \o SliceFrom(c.str, i + 1),
   i |-> node.leftBracketIndex + Len(PLACEHOLDER) - 1,
   leftBracketIndices |->
     [k \in 1..(Len(c.leftBracketIndices) - 1) |->
        IF k < j THEN c.leftBracketIndices[k] ELSE c.leftBracketIndices[k + 1]],
   compiledVariableTemplateFns |->
     Append(SelectSeq(c.compiledVariableTemplateFns,
                      LAMBDA fn : fn \notin SeqToSet(node.nested)),
            node)]

\* a variant of ScanClose that takes the innermost `{` off the stack when
\* the `}` closes no expression, as a plain bracket matcher would
ScanClosePopping(c, i, j) ==
  IF j = 0
  THEN [c EXCEPT !.i = i,
                 !.leftBracketIndices = SubSeq(@, 1, Len(@) - 1)]
  ELSE ScanReplace(c, i, j,
                   CompileNode(c.str, i, c.leftBracketIndices[j],
                               c.compiledVariableTemplateFns))

\* the iteration on a `}` for which getMatches gave j
ScanClose(c, i, j) ==
  IF j = 0 THEN [c EXCEPT !.i = i]
  ELSE ScanReplace(c, i, j,
                   CompileNode(c.str, i, c.leftBracketIndices[j],
                               c.compiledVariableTemplateFns))

\* the iteration on the character ch at i
ScanChar(c, i, ch, shape) ==
  IF ch = "{"
  THEN [c EXCEPT !.i = i, !.leftBracketIndices = Append(@, i)]
  ELSE IF ch # "}" \/ c.leftBracketIndices = <<>>
  THEN [c EXCEPT !.i = i]
  ELSE ScanClose(c, i, getMatches(c.str, i, c.leftBracketIndices, shape))

\* one iteration of the while loop of compileTemplateHelper, from the test
\* ++i < str.length (which holds) to the end of the loop body
ScanIteration(c, shape) == ScanChar(c, c.i + 1, CharAt(c.str, c.i + 1), shape)


(***************************************************************************)
(* Rendering: the resolver of a node, the function compileTemplateHelper   *)
(* returns, and the post-processing of compileTemplate.                    *)
(***************************************************************************)

\* resolvedVariable.error ?? resolvedVariable.result?.toString() ?? ''
ResolvedToString(resolvedVariable) ==
  IF resolvedVariable.kind = "error" THEN resolvedVariable.error
  ELSE IF resolvedVariable.result.t \in {"null", "undefined"} THEN ""
  ELSE ToStr(resolvedVariable.result)

\* an index that is a number n, or NaN
Index(n) == [nan |-> FALSE, n |-> n]
NaN == [nan |-> TRUE, n |-> 0]

\* addResolvedVariable(str, startIndex): slice(0, NaN) is empty and
\* slice(NaN) is the whole string
addResolvedVariable(str, startIndex, resolved) ==
  IF startIndex.nan THEN resolved \o str
  ELSE Slice(str, 0, startIndex.n) \o resolved
       \o Slice(str, startIndex.n + Len(PLACEHOLDER), Len(str))

\* relativeInsertIndex - numWhitespaceRemovedBeforeN[relativeInsertIndex]:
\* NaN when the record has no such entry
VariableCaseIndex(node, relativeInsertIndex) ==
  IF relativeInsertIndex >= 0
     /\ relativeInsertIndex < Len(node.numWhitespaceRemovedBeforeN)
  THEN Index(relativeInsertIndex
             - node.numWhitespaceRemovedBeforeN[relativeInsertIndex + 1])
  ELSE NaN

\* a variant of TrueCaseOffset that measures the variable text without its
\* white space
TrueCaseOffsetWithoutWhitespace(node) ==
  IF node.hasCheck
  THEN Len("{" \o node.globalVariableTemplate) + node.offsetFromVariable
  ELSE 0

\* trueCaseOffset of the NESTED VARIABLES step
TrueCaseOffset(node) ==
  IF node.hasCheck
  THEN Len("{" \o node.variableTemplateWhitespace) + node.offsetFromVariable
  ELSE 0

\* falseCaseOffset, from the true text as it is at that moment
FalseCaseOffset(node, trueText) ==
  IF node.hasCheck
  THEN TrueCaseOffset(node) + Len(trueText) + node.offsetFromTrueCase
  ELSE 0

RECURSIVE getResolvedVariable(_, _, _)
RECURSIVE SpliceNested(_, _, _, _, _)

\* the text `resolved` of a nested variable spliced into the local copy its
\* relative index falls in
SpliceText(node, relativeInsertIndex, resolved, trueCaseOffset, falseCaseOffset, local) ==
  IF node.hasCheck /\ relativeInsertIndex >= falseCaseOffset
  THEN [local EXCEPT !.false =
          addResolvedVariable(@, Index(relativeInsertIndex - falseCaseOffset), resolved)]
  ELSE IF node.hasCheck /\ relativeInsertIndex >= trueCaseOffset
  THEN [local EXCEPT !.true =
          addResolvedVariable(@, Index(relativeInsertIndex - trueCaseOffset), resolved)]
  ELSE [local EXCEPT !.variableTemplate =
          addResolvedVariable(@, VariableCaseIndex(node, relativeInsertIndex), resolved)]

\* one call of the forEach callback, resolvedVariable being what the nested
\* resolver gave
SpliceOne(node, relativeInsertIndex, resolvedVariable, local) ==
  IF resolvedVariable.kind = "throw"
  THEN [local EXCEPT !.thrown = TRUE, !.message = resolvedVariable.error]
  ELSE SpliceText(node, relativeInsertIndex, ResolvedToString(resolvedVariable),
                  TrueCaseOffset(node), FalseCaseOffset(node, local.true), local)

\* the forEach over nestedVariablesWIndices from its element `nested[1]` on;
\* local holds the call's own copies (variableTemplate, true, false) and
\* whether a nested resolver has thrown
SpliceNested(node, nested, local, shape, parseValue) ==
  IF nested = <<>> \/ local.thrown THEN local
  ELSE SpliceNested(node, Tail(nested),
                    SpliceOne(node, Head(nested).insertedIndex - node.leftBracketIndex,
                              getResolvedVariable(Head(nested), shape, parseValue),
                              local),
                    shape, parseValue)

\* the local copies a call of getResolvedVariable starts from
LocalCopies(node) ==
  [variableTemplate |-> node.globalVariableTemplate,
   true |-> node.true, false |-> node.false,
   thrown |-> FALSE, message |-> ""]

\* the local copies of a call of getResolvedVariable after its NESTED
\* VARIABLES step
NestedVariables(node, shape, parseValue) ==
  SpliceNested(node, node.nested, LocalCopies(node), shape, parseValue)

\* the end of getResolvedVariable: parseVariable on the local copies
ResolveLocal(node, local, shape, parseValue) ==
  IF local.thrown THEN Thrown(local.message)
  ELSE parseVariable(local.variableTemplate, node.hasCheck, local.true,
                     local.false, shape, parseValue)

\* getResolvedVariable(parseValue) of a compiled node
getResolvedVariable(node, shape, parseValue) ==
  ResolveLocal(node, NestedVariables(node, shape, parseValue), shape, parseValue)

RECURSIVE RenderFns(_, _, _, _)
\* one turn of the render loop, resolvedResult being what the first of fns
\* resolved to
RenderNext(resultStr, fns, resolvedResult, shape, parseValue) ==
  IF resolvedResult.kind = "throw"
  THEN [threw |-> TRUE, text |-> resolvedResult.error]
  ELSE RenderFns(Slice(resultStr, 0, Head(fns).insertedIndex)
                 \o ResolvedToString(resolvedResult)
                 \o Slice(resultStr, Head(fns).insertedIndex + Len(PLACEHOLDER),
                          Len(resultStr)),
                 Tail(fns), shape, parseValue)

\* the loop of the function compileTemplateHelper returns, over
\* [...compiledVariableTemplateFns].reverse() from its element fns[1] on
RenderFns(resultStr, fns, shape, parseValue) ==
  IF fns = <<>> THEN [threw |-> FALSE, text |-> resultStr]
  ELSE RenderNext(resultStr, fns, getResolvedVariable(Head(fns), shape, parseValue),
                  shape, parseValue)

\* the end of a match of /\{tools.newline\}/ at q, -1 when there is none (the
\* dot of the pattern is unescaped: any character but a line terminator)
NewlineSentinelEnd(s, q) ==
  IF /\ StartsWithAt(s, q, "{tools")
     /\ CharAt(s, q + 6) # "" /\ ~IsLineTerminator(CharAt(s, q + 6))
     /\ StartsWithAt(s, q + 7, "newline}")
  THEN q + Len("{tools.newline}") ELSE -1

\* s.replace(/\{tools.newline\}/g, '\n')
ReplaceNewlineSentinel(s) ==
  JoinWith(OddPieces(SplitAt(s,
    MatchesFrom([q \in 0..(Len(s) - 1) |-> NewlineSentinelEnd(s, q)], 0))), "\n")

\* a variant of KeepsLine that looks for the sentinel as the documentation
\* writes it, {tools.removeLine}
KeepsLineAsWritten(line) == Trim(line) # "" /\ ~Includes(line, "{tools.removeLine}")

\* is the line kept by the filter of compileTemplate
KeepsLine(line) == Trim(line) # "" /\ ~Includes(line, "{tools.removeline}")

\* the post-processing chain of compileTemplate
PostProcess(s) ==
  ReplaceNewlineSentinel(
    JoinWith(SelectSeq(SplitOnChar(ReplaceAll(s, "\\n", "\n"), "\n"), KeepsLine), "\n"))

\* the post-processing of what the render loop gave, unless it threw
PostProcessed(r) == IF r.threw THEN r ELSE [threw |-> FALSE, text |-> PostProcess(r.text)]

\* a variant of ApplyCompiled whose loop visits the compiled functions in the
\* order they were compiled instead of last one first
ApplyCompiledInOrder(fn, shape, parseValue) ==
  IF fn.empty THEN [threw |-> FALSE, text |-> PostProcess("")]
  ELSE PostProcessed(RenderFns(fn.str, fn.compiledVariableTemplateFns,
                               shape, parseValue))

\* a compiled template function (what compileTemplate resolves to) applied
\* to parseValue; fn is the final state of the scan, or empty for `() => ''`
ApplyCompiled(fn, shape, parseValue) ==
  IF fn.empty THEN [threw |-> FALSE, text |-> PostProcess("")]
  ELSE PostProcessed(RenderFns(fn.str, ReverseSeq(fn.compiledVariableTemplateFns),
                               shape, parseValue))


(***************************************************************************)
(* The namespace: convertStreamToParseValue.  A record (ParsedStream) is a *)
(* function from the paths it defines to values; userData likewise.        *)
(***************************************************************************)

\* stream.a?.b: undefined when the record does not define the path
Field(stream, path) == IF path \in DOMAIN stream THEN stream[path] ELSE UndefinedV

\* x || null
OrNull(v) == IF Truthy(v) THEN v ELSE NullV

\* x !== undefined ? x : null
DefinedOrNull(v) == IF v.t = "undefined" THEN NullV ELSE v

\* x ?? null
NullishOrNull(v) == IF v.t \in {"undefined", "null"} THEN NullV ELSE v

\* Env.ADDON_NAME, languageToEmoji, languageToCode, makeSmall and
\* constants.SERVICE_DETAILS are imported from outside these sources: kept
\* as uninterpreted renderings of their arguments
EnvAddonName == "Env.ADDON_NAME"
languageToEmoji(lang) == "emoji(" \o lang \o ")"
languageToCode(lang) == "code(" \o lang \o ")"
makeSmall(code) == "small(" \o code \o ")"
serviceShortName(id) == "shortName(" \o id \o ")"
serviceName(id) == "name(" \o id \o ")"

\* arr.indexOf(x), 0-based, -1 when absent
SeqIndexOf(arr, x) == MinOr({n \in 1..Len(arr) : arr[n] = x}, 0) - 1

\* [...new Set([...preferred, ...required, ...included])]
userSpecifiedLanguages(userData) ==
  Dedup(Field(userData, "preferredLanguages").a
        \o Field(userData, "requiredLanguages").a
        \o Field(userData, "includedLanguages").a)

\* the sort key of languages[n]: the user's languages first, in the user's
\* order, then the others in the record's order
LanguageRank(languages, userSpecified, n) ==
  IF SeqIndexOf(userSpecified, languages[n]) # -1
  THEN SeqIndexOf(userSpecified, languages[n])
  ELSE Len(userSpecified) + SeqIndexOf(languages, languages[n])

\* the elements of arr in ascending order of rank, equal ranks in order
StableSortBy(arr, rank) ==
  [p \in 1..Len(arr) |->
     arr[CHOOSE n \in 1..Len(arr) :
           Cardinality({k \in 1..Len(arr) :
                          rank[k] < rank[n] \/ (rank[k] = rank[n] /\ k < n)}) = p - 1]]

\* [...languages].sort(cmp) (the sort is stable)
sortedLanguages(languages, userSpecified) ==
  StableSortBy(languages,
               [n \in 1..Len(languages) |-> LanguageRank(languages, userSpecified, n)])

\* arr.map(f).filter((value, index, self) => self.indexOf(value) === index)
MapDedup(arr, f(_)) == Dedup([n \in 1..Len(arr) |-> f(arr[n])])

\* arr.map(makeSmall)
MapSmall(arr) == [n \in 1..Len(arr) |-> makeSmall(arr[n])]

\* the paths of a ParseValue, section by section
ParseValuePaths ==
  UNION {{HardcodedShape[k].key \o "." \o HardcodedShape[k].fields[n] :
            n \in 1..Len(HardcodedShape[k].fields)} : k \in 1..Len(HardcodedShape)}

\* the fields of the record copied with `|| null`, by namespace path
OrNullSource ==
  [stream_filename |-> "filename", stream_folderName |-> "folderName",
   stream_size |-> "size", stream_folderSize |-> "folderSize",
   stream_quality |-> "parsedFile.quality",
   stream_resolution |-> "parsedFile.resolution",
   stream_visualTags |-> "parsedFile.visualTags",
   stream_audioTags |-> "parsedFile.audioTags",
   stream_releaseGroup |-> "parsedFile.releaseGroup",
   stream_regexMatched |-> "regexMatched.name",
   stream_encode |-> "parsedFile.encode",
   stream_audioChannels |-> "parsedFile.audioChannels",
   stream_indexer |-> "indexer", stream_year |-> "parsedFile.year",
   stream_type |-> "type", stream_title |-> "parsedFile.title",
   stream_season |-> "parsedFile.season", stream_seasons |-> "parsedFile.seasons",
   stream_episode |-> "parsedFile.episode",
   stream_seasonEpisode |-> "parsedFile.seasonEpisode",
   stream_duration |-> "duration", stream_infoHash |-> "torrent.infoHash",
   stream_age |-> "age", stream_message |-> "message",
   addon_name |-> "addon.name", addon_presetId |-> "addon.preset.type",
   addon_manifestUrl |-> "addon.manifestUrl", service_id |-> "service.id"]

\* "section.field" as a field name of OrNullSource
PathKey(path) ==
  Slice(path, 0, IndexOf(path, ".")) \o "_" \o SliceFrom(path, IndexOf(path, ".") + 1)


\* JSON.stringify({ ...parseValue, debug: undefined }): kept as an
\* uninterpreted rendering of the record's title and size
JsonOf(fields) ==
  "json(" \o ToStr(fields["stream.title"]) \o "," \o ToStr(fields["stream.size"]) \o ")"

\* DebugToolReplacementConstants: the first block of each of the two texts
DebugToolReplacementConstants ==
  [modifier |->
     "\nString: {config.addonName}\n  ::upper {config.addonName::upper}\n{tools.newLine}\n",
   comparator |->
     "\nComparators: <stream.library({stream.library})>::comparator::<stream.proxied({stream.proxied})>\n  ::and:: {stream.library::and::stream.proxied[\"true\"||\"false\"]}\n{tools.newLine}\n"]

\* the language arrays of the namespace, from the sorted languages and those
\* of them the user specified
DerivedLanguages(path, sorted, onlyUserSpecifiedLanguages) ==
  CASE path = "stream.languages" -> sorted
    [] path = "stream.uLanguages" -> onlyUserSpecifiedLanguages
    [] path \in {"stream.languageEmojis", "stream.wedontknowwhatakilometeris"} ->
         MapDedup(sorted, languageToEmoji)
    [] path \in {"stream.uLanguageEmojis", "stream.uWedontknowwhatakilometeris"} ->
         MapDedup(onlyUserSpecifiedLanguages, languageToEmoji)
    [] path = "stream.languageCodes" -> MapDedup(sorted, languageToCode)
    [] path = "stream.uLanguageCodes" ->
         MapDedup(onlyUserSpecifiedLanguages, languageToCode)
    [] path = "stream.smallLanguageCodes" -> MapSmall(MapDedup(sorted, languageToCode))
    [] path = "stream.uSmallLanguageCodes" ->
         MapSmall(MapDedup(onlyUserSpecifiedLanguages, languageToCode))

\* the service names of the record's service id
ServiceDetail(serviceId, detail) ==
  IF ~Truthy(serviceId) THEN NullV
  ELSE StrV(IF detail = "shortName" THEN serviceShortName(serviceId.s)
            ELSE serviceName(serviceId.s))

\* the value of one namespace path, debug.json and debug.jsonf apart
PathValue(path, stream, userData, has, sorted, onlyUserSpecifiedLanguages) ==
  CASE path = "config.addonName" ->
         IF Truthy(Field(userData, "addonName"))
         THEN Field(userData, "addonName") ELSE StrV(EnvAddonName)
    [] PathKey(path) \in DOMAIN OrNullSource ->
         OrNull(Field(stream, OrNullSource[PathKey(path)]))
    [] path = "stream.library" -> DefinedOrNull(Field(stream, "library"))
    [] path = "stream.proxied" -> DefinedOrNull(Field(stream, "proxied"))
    [] path = "service.cached" -> DefinedOrNull(Field(stream, "service.cached"))
    [] path = "stream.seeders" -> NullishOrNull(Field(stream, "torrent.seeders"))
    [] path = "service.shortName" -> ServiceDetail(Field(stream, "service.id"), "shortName")
    [] path = "service.name" -> ServiceDetail(Field(stream, "service.id"), "name")
    [] path = "tools.removeline" -> StrV("{tools.removeline}")
    [] path = "tools.newline" -> StrV("{tools.newline}")
    [] path = "debug.modifier" -> StrV(DebugToolReplacementConstants.modifier)
    [] path = "debug.comparator" -> StrV(DebugToolReplacementConstants.comparator)
    [] path \in {"debug.json", "debug.jsonf"} -> NullV
    [] OTHER ->
         IF has
         THEN ArrV(DerivedLanguages(path, sorted, onlyUserSpecifiedLanguages), path)
         ELSE NullV

\* the ParseValue without its debug.json texts
PlainFields(stream, userData, languages, userSpecified) ==
  [path \in ParseValuePaths |->
     PathValue(path, stream, userData, languages.t = "array",
               IF languages.t = "array"
               THEN sortedLanguages(languages.a, userSpecified) ELSE <<>>,
               IF languages.t = "array"
               THEN SelectSeq(sortedLanguages(languages.a, userSpecified),
                              LAMBDA lang : SeqIndexOf(userSpecified, lang) # -1)
               ELSE <<>>)]

\* the ParseValue: the plain fields, and the debug.json texts made from them
WithDebugJson(plain, rnd) ==
  [fields |-> [path \in ParseValuePaths |->
                 IF path \in {"debug.json", "debug.jsonf"}
                 THEN StrV(JsonOf(plain)) ELSE plain[path]],
   rnd |-> rnd]

\* convertStreamToParseValue(stream): fields maps each namespace path to its
\* value; rnd is what Math.random() gives the `random` modifier at this call
convertStreamToParseValue(stream, userData, rnd) ==
  WithDebugJson(PlainFields(stream, userData,
                            OrNull(Field(stream, "parsedFile.languages")),
                            userSpecifiedLanguages(userData)),
                rnd)

\* str.replace(needle, text): the first occurrence is replaced
ReplaceFirst(s, needle, text) ==
  IF Includes(s, needle)
  THEN Between(s, 0, IndexOf(s, needle)) \o text
       \o SliceFrom(s, IndexOf(s, needle) + Len(needle))
  ELSE s

\* the pre-processing of compileTemplate: str.replace('{debug.<key>}', text)
\* for each key
PreProcess(str) ==
  ReplaceFirst(ReplaceFirst(str, "{debug.modifier}", DebugToolReplacementConstants.modifier),
               "{debug.comparator}", DebugToolReplacementConstants.comparator)


(***************************************************************************)
(* The formatter instance as a state machine.                              *)
(***************************************************************************)

VARIABLES
  config,                         \* this.config: the two template strings
  userData,                       \* this.userData
  regexBuilder,                   \* the namespace shape the builder was given
  pc,                             \* where the constructor is
  scan,                           \* the locals of the running compileTemplateHelper
  compiled,                       \* the promises of the two compileTemplate calls
  precompiledNameFunction,
  precompiledDescriptionFunction,
  compilationPromise,             \* this._compilationPromise
  pending,                        \* format() calls waiting at their await, oldest first
  history,                        \* the settled format() calls, in order
  drawn,                          \* the parameters the templates were built from
  \* a torrent search addon during one _searchTorrents call
  addon,                          \* the variant and what the call is given
  searchPc,                       \* where the call is
  indexers,                       \* the indexers the addon was answered with
  searchTasks,                    \* the search tasks: queued, in flight or done
  torrents,                       \* the array the call collects into and returns
  seenTorrents,                   \* the Set of deduplication keys
  deadline,                       \* the setTimeout of the search deadline
  \* the stream route of the server and its "are you still there" gate
  areYouStillThere,               \* req.userData.areYouStillThere of the user
  stored,                         \* the entry of the user in the cache 'areYouStillThere'
  requests,                       \* the stream requests of the user so far
  clock,                          \* what Date.now() gives
  gateLog,                        \* arrivals and responses, in order
  \* an instance of the cache-based formatter
  cacheConfig,                    \* this.config: the two template strings
  localCache,                     \* this.localCache: what each key is mapped to
  parse,                          \* the format() call under way and its parseString
  formatted                       \* what the format() calls returned, in order

formatterVars ==
  <<config, userData, regexBuilder, pc, scan, compiled, precompiledNameFunction,
    precompiledDescriptionFunction, compilationPromise, pending, history, drawn>>

searchVars ==
  <<addon, searchPc, indexers, searchTasks, torrents, seenTorrents, deadline>>

gateVars == <<areYouStillThere, stored, requests, clock, gateLog>>

\* what a formatter, a search and the stream route leave alone
cacheVars == <<cacheConfig, localCache, parse, formatted>>

outsideFormatter == <<searchVars, gateVars, cacheVars>>
outsideSearch == <<formatterVars, gateVars, cacheVars>>
outsideGate == <<formatterVars, searchVars, cacheVars>>
outsideCache == <<formatterVars, searchVars, gateVars>>

vars == <<formatterVars, outsideFormatter>>

\* no cache-based formatter is constructed
NoCache ==
  /\ cacheConfig = [name |-> "", description |-> ""]
  /\ localCache = <<>>
  /\ parse = [phase |-> "none"]
  /\ formatted = <<>>

\* no _searchTorrents call is under way
NoSearch ==
  /\ addon = [variant |-> "none"]
  /\ searchPc = "none"
  /\ indexers = <<>>
  /\ searchTasks = <<>>
  /\ torrents = <<>>
  /\ seenTorrents = {}
  /\ deadline = "unset"

\* format() calls made on one instance
MaxCalls == 3

\* a ParseValueToString: null, `() => ''`, or the closure over the final
\* working string and the top-level nodes
NullFn == [null |-> TRUE, empty |-> FALSE, str |-> "", compiledVariableTemplateFns |-> <<>>]
EmptyFn == [null |-> FALSE, empty |-> TRUE, str |-> "", compiledVariableTemplateFns |-> <<>>]
CompiledFn(c) ==
  [null |-> FALSE, empty |-> FALSE, str |-> c.str,
   compiledVariableTemplateFns |-> c.compiledVariableTemplateFns]

\* the promise of one compileTemplate call
NotStarted == [state |-> "none", fn |-> NullFn, reason |-> ""]
Resolved(fn) == [state |-> "resolved", fn |-> fn, reason |-> ""]
Rejected(reason) == [state |-> "rejected", fn |-> NullFn, reason |-> reason]

DuplicateError == "Error: Must Remove Case-Insensitive Duplicate"
NotReadyError == "Error: Template compilation failed - formatter not ready"

\* the template the constructor is compiling at pc, and where it goes next
TemplateAt(p) == IF p \in {"CompileName", "ScanName"} THEN "name" ELSE "description"
AfterTemplate(p) ==
  IF p \in {"CompileName", "ScanName"} THEN "CompileDescription" ELSE "Return"

\* the server has no stream request
NoRequests ==
  /\ areYouStillThere = [enabled |-> FALSE]
  /\ stored = [count |-> 0, lastAt |-> 0, set |-> FALSE]
  /\ requests = <<>>
  /\ clock = 0
  /\ gateLog = <<>>

\* the state the constructor is in when it has stored its arguments and
\* built the regex builder, compileTemplatesAsync about to start
FieldsStored(cfg, ud, shape, d) ==
  /\ config = cfg
  /\ userData = ud
  /\ regexBuilder = shape
  /\ pc = "CompileName"
  /\ scan = ScanInit("")
  /\ compiled = [name |-> NotStarted, description |-> NotStarted]
  /\ precompiledNameFunction = NullFn
  /\ precompiledDescriptionFunction = NullFn
  /\ compilationPromise = [state |-> "pending", reason |-> ""]
  /\ pending = <<>>
  /\ history = <<>>
  /\ drawn = d

\* a formatter under construction, and nothing else going on
AfterFieldsStored(cfg, ud, shape, d) ==
  FieldsStored(cfg, ud, shape, d) /\ NoSearch /\ NoRequests /\ NoCache

\* compileTemplate(str) up to the scan loop: the debug keys are replaced, an
\* empty template compiles to `() => ''`, and buildRegexExpression throws on
\* a namespace shape with a case-insensitive duplicate
CompileTemplate ==
  /\ pc \in {"CompileName", "CompileDescription"}
  /\ LET str == PreProcess(config[TemplateAt(pc)])
     IN IF str = ""
        THEN /\ compiled' = [compiled EXCEPT ![TemplateAt(pc)] = Resolved(EmptyFn)]
             /\ pc' = AfterTemplate(pc)
             /\ scan' = scan
        ELSE IF HasCaseInsensitiveDuplicate(regexBuilder)
        THEN /\ compiled' = [compiled EXCEPT ![TemplateAt(pc)] = Rejected(DuplicateError)]
             /\ pc' = AfterTemplate(pc)
             /\ scan' = scan
        ELSE /\ scan' = ScanInit(str)
             /\ pc' = IF pc = "CompileName" THEN "ScanName" ELSE "ScanDescription"
             /\ compiled' = compiled
  /\ UNCHANGED <<config, userData, regexBuilder, precompiledNameFunction,
                 precompiledDescriptionFunction, compilationPromise, pending,
                 history, drawn,
                 outsideFormatter>>

\* one iteration of the while loop of compileTemplateHelper
ScanStep ==
  /\ pc \in {"ScanName", "ScanDescription"}
  /\ ~ScanDone(scan)
  /\ scan' = ScanIteration(scan, regexBuilder)
  /\ UNCHANGED <<config, userData, regexBuilder, pc, compiled,
                 precompiledNameFunction, precompiledDescriptionFunction,
                 compilationPromise, pending, history, drawn,
                 outsideFormatter>>

\* the loop is left: compileTemplateHelper returns the closure
ScanEnd ==
  /\ pc \in {"ScanName", "ScanDescription"}
  /\ ScanDone(scan)
  /\ compiled' = [compiled EXCEPT ![TemplateAt(pc)] = Resolved(CompiledFn(scan))]
  /\ scan' = ScanInit("")
  /\ pc' = AfterTemplate(pc)
  /\ UNCHANGED <<config, userData, regexBuilder, precompiledNameFunction,
                 precompiledDescriptionFunction, compilationPromise, pending,
                 history, drawn,
                 outsideFormatter>>

\* compileTemplatesAsync has reached its await: the constructor returns
ConstructorReturn ==
  /\ pc = "Return"
  /\ pc' = "Constructed"
  /\ UNCHANGED <<config, userData, regexBuilder, scan, compiled,
                 precompiledNameFunction, precompiledDescriptionFunction,
                 compilationPromise, pending, history, drawn,
                 outsideFormatter>>

\* a variant of Settled whose continuation fulfils the promise with the name
\* function assigned and the description function still to be assigned
SettledNameOnly(c) ==
  IF c.name.state = "rejected"
  THEN [promise |-> [state |-> "rejected", reason |-> c.name.reason],
        name |-> NullFn, description |-> NullFn]
  ELSE IF c.description.state = "rejected"
  THEN [promise |-> [state |-> "rejected", reason |-> c.description.reason],
        name |-> NullFn, description |-> NullFn]
  ELSE [promise |-> [state |-> "fulfilled", reason |-> ""],
        name |-> c.name.fn, description |-> NullFn]

\* what the continuation of compileTemplatesAsync does to the instance:
\* Promise.all rejects with the first rejection, otherwise both functions
\* are assigned
Settled(c) ==
  IF c.name.state = "rejected"
  THEN [promise |-> [state |-> "rejected", reason |-> c.name.reason],
        name |-> NullFn, description |-> NullFn]
  ELSE IF c.description.state = "rejected"
  THEN [promise |-> [state |-> "rejected", reason |-> c.description.reason],
        name |-> NullFn, description |-> NullFn]
  ELSE [promise |-> [state |-> "fulfilled", reason |-> ""],
        name |-> c.name.fn, description |-> c.description.fn]

CompilationSettle ==
  /\ pc = "Constructed"
  /\ compilationPromise.state = "pending"
  /\ compilationPromise' = Settled(compiled).promise
  /\ precompiledNameFunction' = Settled(compiled).name
  /\ precompiledDescriptionFunction' = Settled(compiled).description
  /\ UNCHANGED <<config, userData, regexBuilder, pc, scan, compiled, pending,
                 history, drawn,
                 outsideFormatter>>


\* a node whose texts are the copies a call has spliced into
WrittenBack(node, local) ==
  [node EXCEPT !.globalVariableTemplate = local.variableTemplate,
               !.true = local.true, !.false = local.false]

\* a variant of SharedStateAfterCall in which the resolvers splice into the
\* texts of the closure itself instead of local copies
SplicedInPlace(fn, shape, parseValue) ==
  [fn EXCEPT !.compiledVariableTemplateFns =
     [n \in 1..Len(@) |-> WrittenBack(@[n], NestedVariables(@[n], shape, parseValue))]]

\* what a call leaves of a compiled function for the next call: the
\* resolvers work on local copies of the texts they splice into, so the
\* closure is as it was
SharedStateAfterCall(fn, shape, parseValue) == fn

RejectedOutcome(reason) ==
  [kind |-> "rejected", name |-> "", description |-> "", reason |-> reason]

\* what format() returns when both templates rendered, or the exception one
\* of them threw
OutcomeOf(name, description) ==
  IF name.threw THEN RejectedOutcome(name.text)
  ELSE IF description.threw THEN RejectedOutcome(description.text)
  ELSE [kind |-> "fulfilled", name |-> name.text,
        description |-> description.text, reason |-> ""]

\* the body of format(stream) after its await
FormatOutcome(promise, nameFn, descriptionFn, stream, ud, shape, rnd) ==
  IF promise.state = "rejected" THEN RejectedOutcome(promise.reason)
  ELSE IF nameFn.null \/ descriptionFn.null THEN RejectedOutcome(NotReadyError)
  ELSE OutcomeOf(ApplyCompiled(nameFn, shape, convertStreamToParseValue(stream, ud, rnd)),
                 ApplyCompiled(descriptionFn, shape,
                               convertStreamToParseValue(stream, ud, rnd)))

\* the records format() is called with
S1 ==
  [path \in {"filename", "size", "library", "proxied", "parsedFile.title",
             "parsedFile.languages"} |->
     CASE path = "filename" -> StrV("Open.Arms.mkv")
       [] path = "size" -> NumV(1024)
       [] path = "library" -> BoolV(FALSE)
       [] path = "proxied" -> BoolV(TRUE)
       [] path = "parsedFile.title" -> StrV("open arms")
       [] path = "parsedFile.languages" -> ArrV(<<"Italian", "English">>, "languages")]
S2 ==
  [path \in {"size", "proxied"} |->
     CASE path = "size" -> NumV(7)
       [] path = "proxied" -> BoolV(FALSE)]
S3 ==
  [path \in {"proxied", "parsedFile.title", "message"} |->
     CASE path = "proxied" -> BoolV(FALSE)
       [] path = "parsedFile.title" -> StrV("X")
       [] path = "message" -> StrV("m s g")]
Streams == {S1, S2, S3}

\* the texts a record holds
TextsOf(record) ==
  UNION {{record[f].s} \cup SeqToSet(record[f].a) : f \in DOMAIN record}

\* Math.random() is called by the random modifier alone, and the name of a
\* modifier comes from a template or from a value spliced into one: what a
\* call can draw, one value standing for no draw at all
RandomDraws(cfg, stream, ud) ==
  IF \E text \in {cfg.name, cfg.description} \cup TextsOf(stream) \cup TextsOf(ud) :
       Includes(ToLowerCase(text), "random")
  THEN 0..(RandomRange - 1) ELSE {0}

\* format(stream) is called: it runs to its await
FormatCall(stream) ==
  /\ pc = "Constructed"
  /\ Len(pending) + Len(history) < MaxCalls
  /\ pending' = Append(pending, stream)
  /\ UNCHANGED <<config, userData, regexBuilder, pc, scan, compiled,
                 precompiledNameFunction, precompiledDescriptionFunction,
                 compilationPromise, history, drawn,
                 outsideFormatter>>

\* the oldest waiting call resumes once the compilation promise has settled,
\* and runs to its end
FormatResume ==
  /\ pending # <<>>
  /\ compilationPromise.state # "pending"
  /\ \E rnd \in RandomDraws(config, Head(pending), userData) :
       /\ history' =
            Append(history,
                   [stream |-> Head(pending),
                    outcome |-> FormatOutcome(compilationPromise,
                                              precompiledNameFunction,
                                              precompiledDescriptionFunction,
                                              Head(pending), userData,
                                              regexBuilder, rnd)])
       /\ precompiledNameFunction' =
            SharedStateAfterCall(precompiledNameFunction, regexBuilder,
                                 convertStreamToParseValue(Head(pending), userData, rnd))
       /\ precompiledDescriptionFunction' =
            SharedStateAfterCall(precompiledDescriptionFunction, regexBuilder,
                                 convertStreamToParseValue(Head(pending), userData, rnd))
  /\ pending' = Tail(pending)
  /\ UNCHANGED <<config, userData, regexBuilder, pc, scan, compiled,
                 compilationPromise, drawn,
                 outsideFormatter>>

Next ==
  \/ CompileTemplate
  \/ ScanStep
  \/ ScanEnd
  \/ ConstructorReturn
  \/ CompilationSettle
  \/ \E stream \in Streams : FormatCall(stream)
  \/ FormatResume


\* the user's settings
UserData == [path \in {"addonName"} |-> StrV("AIO")]

\* namespace shapes of a subclass whose convertStreamToParseValue adds a
\* field, or a section, that collides when letter case is ignored
DuplicateFieldShape ==
  [n \in 1..Len(HardcodedShape) |->
     IF HardcodedShape[n].key = "stream"
     THEN [key |-> "stream", fields |-> Append(HardcodedShape[n].fields, "Title")]
     ELSE HardcodedShape[n]]
DuplicateSectionShape == Append(HardcodedShape, [key |-> "Stream", fields |-> <<"x">>])

\* the template pairs formatter instances are constructed with
Templates ==
  { [name |-> "{config.addonName::length::>={stream.size::string::length}}",
     description |-> "plain text, no expression"],
    [name |-> "{stream.title::hex[\"Y\"||\"N\"]}",
     description |-> "{stream.proxied::istrue[\"T\"||\"F\"]} {stream.title[\"T\"||\"F\"]}"],
    [name |-> "{stream.doesnotexist}",
     description |-> "{stream.title[]} {stream.size::>0[\"big\"]}"],
    [name |-> "{stream.title::replace('(','x')}", description |-> ""],
    [name |-> "", description |-> ""],
    [name |-> "{stream.title::reverse::title::reverse}",
     description |-> "{stream.title::UPPER} {stream.size::string::length}"],
    [name |-> "{stream.languages::random}",
     description |-> "a\\nb\n \n{tools.removeLine}z\nw{tools.newLine}v"],
    [name |-> "{stream.proxied :: istrue [ \"a{stream.title}\" || \"{stream.size}b{stream.message}\" ] }",
     description |-> "{stream.title::~{stream.message}arms} {stream.library::or::stream.proxied}"],
    [name |-> "{stream.proxied::istrue[\"{x}\"||\"n\"]}",
     description |-> "}a{ {stream.title}b{stream.size::hex}{c} {stream.message}"] }

\* a formatter of the base class is constructed with any of the template
\* pairs; one of a colliding subclass with the pairs that matter there
Instances ==
  {[config |-> t, shape |-> HardcodedShape] : t \in Templates}
  \cup {[config |-> t, shape |-> s] :
          t \in {x \in Templates : x.description \in {"", "plain text, no expression"}},
          s \in {DuplicateFieldShape, DuplicateSectionShape}}

\* what `drawn` holds when the templates are fixed ones
NotDrawn == [family |-> "fixed", ws |-> <<>>, true |-> 0, false |-> 0]

Init ==
  \E inst \in Instances :
    AfterFieldsStored(inst.config, UserData, inst.shape, NotDrawn)

Spec == Init /\ [][Next]_vars
(***************************************************************************)
(* The formatter used once: the two compilations as one step and one       *)
(* format() call on the ready instance, on templates drawn from a family   *)
(* of conditional expressions whose branch texts hold nested expressions.  *)
(***************************************************************************)

\* white-space characters put in one gap of a drawn template
MaxWS == 2
\* nested expressions put in one branch text of a drawn template
MaxNested == 2

\* the gaps of a drawn template: 1 before the :: of the variable text, 2
\* after it, 3 before [, 4 after [, 5 before the first |, 6 between the two,
\* 7 after the second, 8 before ], 9 before }
Gaps == 1..9

\* no white space, white space in one gap, white space in every gap
WhitespaceVectors ==
  {[g \in Gaps |-> 0]}
  \cup {[g \in Gaps |-> IF g = h THEN n ELSE 0] : h \in Gaps, n \in 1..MaxWS}
  \cup {[g \in Gaps |-> n] : n \in 1..MaxWS}

\* the parts of the true text with n nested expressions: each part is a
\* literal followed by a nested expression on a field of the stream section
TrueLayout(n) ==
  [i \in 1..n |-> IF i % 2 = 1 THEN [lit |-> "a", field |-> "title"]
                  ELSE [lit |-> "", field |-> "message"]]

\* the parts of the false text with n nested expressions
FalseLayout(n) ==
  [i \in 1..n |-> IF i % 2 = 1 THEN [lit |-> "", field |-> "message"]
                  ELSE [lit |-> "b", field |-> "size"]]

\* the literal that ends the false text
FalseTail == "z"

\* a branch text as it is written in the template
BranchSource(layout, tail) ==
  JoinAll([i \in 1..Len(layout) |->
             layout[i].lit \o "{stream." \o layout[i].field \o "}"]) \o tail

\* the template of the family for the white space ws and the two counts
CheckTemplate(ws, nT, nF) ==
  "ab{stream.proxied" \o Repeat(" ", ws[1]) \o "::" \o Repeat(" ", ws[2]) \o "istrue"
  \o Repeat(" ", ws[3]) \o "[" \o Repeat(" ", ws[4])
  \o "\"" \o BranchSource(TrueLayout(nT), "") \o "\""
  \o Repeat(" ", ws[5]) \o "|" \o Repeat(" ", ws[6]) \o "|" \o Repeat(" ", ws[7])
  \o "\"" \o BranchSource(FalseLayout(nF), FalseTail) \o "\""
  \o Repeat(" ", ws[8]) \o "]" \o Repeat(" ", ws[9]) \o "}c"

\* the iterations of the while loop of compileTemplateHelper from c on, n of
\* them being left (each iteration leaves one character less to scan)
RECURSIVE ScanTimes(_, _, _)
ScanTimes(c, n, shape) ==
  IF n <= 0 THEN c
  ELSE IF n = 1 THEN ScanIteration(c, shape)
  ELSE CHOOSE done \in {ScanTimes(half, n - n \div 2, shape) :
                           half \in {ScanTimes(c, n \div 2, shape)}} : TRUE

\* the whole while loop of compileTemplateHelper
ScanToEnd(c, shape) == ScanTimes(c, Len(c.str) - 1 - c.i, shape)

\* the promise of compileTemplate(str) once the template str is pre-processed
CompilePreProcessed(str, shape) ==
  IF str = "" THEN Resolved(EmptyFn)
  ELSE IF HasCaseInsensitiveDuplicate(shape) THEN Rejected(DuplicateError)
  ELSE Resolved(CompiledFn(ScanToEnd(ScanInit(str), shape)))

\* the promise of compileTemplate(template)
CompileWhole(template, shape) == CompilePreProcessed(PreProcess(template), shape)

\* compileTemplatesAsync up to its await, as one step: the two
\* compileTemplate calls
CompileTemplates ==
  /\ pc = "CompileName"
  /\ compiled' = [name |-> CompileWhole(config.name, regexBuilder),
                  description |-> CompileWhole(config.description, regexBuilder)]
  /\ pc' = "Return"
  /\ UNCHANGED <<config, userData, regexBuilder, scan, precompiledNameFunction,
                 precompiledDescriptionFunction, compilationPromise, pending,
                 history, drawn,
                 outsideFormatter>>

\* format(stream), as one step, on an instance not used before
FormatOnce(stream) ==
  /\ pc = "Constructed"
  /\ compilationPromise.state # "pending"
  /\ pending = <<>>
  /\ history = <<>>
  /\ \E rnd \in RandomDraws(config, stream, userData) :
       /\ history' =
            <<[stream |-> stream,
               outcome |-> FormatOutcome(compilationPromise, precompiledNameFunction,
                                         precompiledDescriptionFunction, stream,
                                         userData, regexBuilder, rnd)]>>
       /\ precompiledNameFunction' =
            SharedStateAfterCall(precompiledNameFunction, regexBuilder,
                                 convertStreamToParseValue(stream, userData, rnd))
       /\ precompiledDescriptionFunction' =
            SharedStateAfterCall(precompiledDescriptionFunction, regexBuilder,
                                 convertStreamToParseValue(stream, userData, rnd))
  /\ UNCHANGED <<config, userData, regexBuilder, pc, scan, compiled,
                 compilationPromise, pending, drawn,
                 outsideFormatter>>

NextSplice ==
  \/ CompileTemplates
  \/ ConstructorReturn
  \/ CompilationSettle
  \/ \E stream \in Streams : FormatOnce(stream)

\* the templates drawn: every white-space vector with every pair of counts
DrawnTemplates ==
  {[family |-> "check", ws |-> ws, true |-> nT, false |-> nF] :
     ws \in WhitespaceVectors, nT \in 0..MaxNested, nF \in 0..MaxNested}

InitSplice ==
  \E d \in DrawnTemplates :
    AfterFieldsStored([name |-> CheckTemplate(d.ws, d.true, d.false),
                       description |-> ""],
                      UserData, HardcodedShape, d)

SpecSplice == InitSplice /\ [][NextSplice]_vars


(***************************************************************************)
(* The formatter used once on templates that are one expression of         *)
(* several segments joined by comparators.                                 *)
(***************************************************************************)

\* segments joined in one drawn expression
MaxSegments == 3

\* the segments drawn from: two that resolve to a value, two that resolve to
\* an error tag, and one whose modifier makes new RegExp throw on a string
CompareSegments ==
  <<"stream.proxied", "stream.library", "stream.size::upper", "stream.title::hex",
    "stream.title::replace('(','x')">>

\* the comparators written between them
CompareWritten == <<"and", "or", "AND">>

\* segment k of the expression d, and the comparator written after it
SegmentText(d, k) == CompareSegments[d.segments[k]]
WrittenComparator(d, k) == CompareWritten[d.comparators[k]]

\* the variable text of the expression d
RECURSIVE CompareText(_, _)
CompareText(d, n) ==
  IF n = 1 THEN SegmentText(d, 1)
  ELSE CompareText(d, n - 1) \o comparatorWrapper \o WrittenComparator(d, n - 1)
       \o comparatorWrapper \o SegmentText(d, n)

\* the template of the expression d
CompareTemplate(d) == "{" \o CompareText(d, Len(d.segments)) \o "}"

\* the expressions drawn: every choice of 2..MaxSegments segments and of the
\* comparators between them
DrawnExpressions ==
  UNION {{[family |-> "compare", segments |-> s, comparators |-> c] :
            s \in [1..n -> DOMAIN CompareSegments],
            c \in [1..(n - 1) -> DOMAIN CompareWritten]} : n \in 2..MaxSegments}

InitCompare ==
  \E d \in DrawnExpressions :
    AfterFieldsStored([name |-> CompareTemplate(d), description |-> ""],
                      UserData, HardcodedShape, d)

SpecCompare == InitCompare /\ [][NextSplice]_vars


(***************************************************************************)
(* The formatter used once on a pair of templates: the name template is an *)
(* expression written with a variation, the description template the same  *)
(* expression written plainly.                                             *)
(***************************************************************************)

\* the expressions varied, each as the tokens it is written with
VariedExpressions ==
  << <<"{", "stream.title", "::", "upper", "::", "lower", "}">>,
     <<"{", "stream.library", "::", "or", "::", "stream.proxied", "}">>,
     <<"{", "stream.size", "::", ">0", "::", "and", "::", "stream.proxied", "::",
       "istrue", "}">>,
     <<"{", "stream.title", "::", "length", "}">> >>

\* the white space put after each token but the last: none, in one gap, in
\* every gap
GapVectors(tokens) ==
  {[g \in 1..(Len(tokens) - 1) |-> 0]}
  \cup {[g \in 1..(Len(tokens) - 1) |-> IF g = h THEN n ELSE 0] :
          h \in 1..(Len(tokens) - 1), n \in 1..MaxWS}
  \cup {[g \in 1..(Len(tokens) - 1) |-> n] : n \in 1..MaxWS}

\* the tokens written with ws[g] spaces after token g
WrittenWithGaps(tokens, ws) ==
  JoinAll([k \in 1..Len(tokens) |->
             IF k < Len(tokens) THEN tokens[k] \o Repeat(" ", ws[k]) ELSE tokens[k]])

\* the pairs drawn for white space
DrawnWhitespace ==
  UNION {{[family |-> "whitespace", base |-> b, ws |-> ws] :
            ws \in GapVectors(VariedExpressions[b])} : b \in DOMAIN VariedExpressions}

\* the numbers compared with the size of a record, each written with a
\* thousands separator and without
ThousandsLiterals == <<[grouped |-> "1,000", plain |-> "1000"],
                       [grouped |-> "1,024", plain |-> "1024"]>>

\* the prefix modifiers that compare
ComparingPrefixes == <<"=", ">=", ">", "<=", "<">>

\* the conditional expression on the size of the record with the prefix
\* modifier and the literal
SizeComparison(modPrefix, literal) ==
  "{stream.size::" \o modPrefix \o literal \o "[\"T\"||\"F\"]}"

\* the pairs drawn for thousands separators
DrawnThousands ==
  {[family |-> "thousands", prefix |-> p, literal |-> l] :
     p \in DOMAIN ComparingPrefixes, l \in DOMAIN ThousandsLiterals}

\* the ways the two sentinel expressions are written
NewLineWritten == <<"{tools.newLine}", "{tools.newline}", "{TOOLS.NEWLINE}", "{Tools.NewLine}">>
RemoveLineWritten ==
  <<"{tools.removeLine}", "{tools.removeline}", "{TOOLS.REMOVELINE}", "{Tools.RemoveLine}">>

\* three lines: the first holds a forced line break, the second asks to be
\* removed, the third is the title of the record
SentinelTemplate(newLine, removeLine) ==
  "a" \o newLine \o "b\nc" \o removeLine \o "d\n{stream.title}"

\* the pairs drawn for the letter case of the sentinels
DrawnSentinels ==
  {[family |-> "sentinels", newLine |-> x, removeLine |-> y] :
     x \in DOMAIN NewLineWritten, y \in DOMAIN RemoveLineWritten}

\* the tokens with token h written in upper case
WrittenInUpperCase(tokens, h) ==
  JoinAll([k \in 1..Len(tokens) |-> IF k = h THEN ToUpperCase(tokens[k]) ELSE tokens[k]])

\* the pairs drawn for letter case: every name of every varied expression
DrawnCase ==
  UNION {{[family |-> "case", base |-> b, token |-> h] :
            h \in {k \in 1..Len(VariedExpressions[b]) :
                     VariedExpressions[b][k] \notin {"{", "}", "::"}}} :
           b \in DOMAIN VariedExpressions}

\* the array modifiers that yield an array, and the array modifiers written
\* after them in the same chain
ArrayYielding == <<"sort", "reverse">>

WrittenAfter == <<"join(' | ')", "first", "last", "length">>

\* {stream.languages::<yielding>::<after>}
ArrayChain(yielding, after) ==
  "{stream.languages::" \o yielding \o "::" \o after \o "}"

\* the chains drawn: every yielding modifier followed by every array modifier
DrawnChains ==
  {[family |-> "arraychain", yielding |-> x, after |-> y] :
     x \in DOMAIN ArrayYielding, y \in DOMAIN WrittenAfter}

\* the two templates of a drawn pair
VariantTemplates(d) ==
  IF d.family = "arraychain"
  THEN [name |-> ArrayChain(ArrayYielding[d.yielding], WrittenAfter[d.after]),
        description |-> "{stream.languages::join(',')}"]
  ELSE IF d.family = "case"
  THEN [name |-> WrittenInUpperCase(VariedExpressions[d.base], d.token),
        description |-> JoinAll(VariedExpressions[d.base])]
  ELSE IF d.family = "sentinels"
  THEN [name |-> SentinelTemplate(NewLineWritten[d.newLine],
                                  RemoveLineWritten[d.removeLine]),
        description |-> SentinelTemplate(NewLineWritten[1], RemoveLineWritten[1])]
  ELSE IF d.family = "whitespace"
  THEN [name |-> WrittenWithGaps(VariedExpressions[d.base], d.ws),
        description |-> JoinAll(VariedExpressions[d.base])]
  ELSE [name |-> SizeComparison(ComparingPrefixes[d.prefix],
                                ThousandsLiterals[d.literal].grouped),
        description |-> SizeComparison(ComparingPrefixes[d.prefix],
                                       ThousandsLiterals[d.literal].plain)]

InitVariants ==
  \E d \in DrawnWhitespace \cup DrawnThousands \cup DrawnSentinels \cup DrawnCase
          \cup DrawnChains :
    AfterFieldsStored(VariantTemplates(d), UserData, HardcodedShape, d)

SpecVariants == InitVariants /\ [][NextSplice]_vars


\* ---------------------------------------------------------------------------
\* _searchTorrents of the torrent search addons: TorznabAddon over the
\* indexers of Jackett (variant "torznab"), TorznabAddon over the aggregated
\* endpoint (variant "aggregate"), ProwlarrAddon (variant "prowlarr")

\* queries buildQueries gives a call
MaxQueries == 1

\* results one search is answered with
MaxResults == 2

\* searches the query limit of ProwlarrAddon lets run at a time
QueryLimit == 1

\* what a search result carries for deduplication; "" stands for undefined
\* (no valid info hash, no torrent enclosure)
SearchResults ==
  {[infoHash |-> h, downloadUrl |-> u] : h \in {"", "h1"}, u \in {"", "u1"}}

\* the answers to one search: up to MaxResults results
RECURSIVE ResultLists(_)
ResultLists(n) ==
  IF n = 0 THEN {<<>>}
  ELSE ResultLists(n - 1)
       \cup {Append(l, r) : l \in {x \in ResultLists(n - 1) : Len(x) = n - 1},
                            r \in SearchResults}

\* the indexers an addon may be answered with
IndexersDrawn ==
  LET a == [name |-> "a", enable |-> TRUE, protocol |-> "torrent", tags |-> {1}]
      b == [name |-> "b", enable |-> TRUE, protocol |-> "torrent", tags |-> {}]
      c == [name |-> "c", enable |-> FALSE, protocol |-> "torrent", tags |-> {1}]
      d == [name |-> "d", enable |-> TRUE, protocol |-> "usenet", tags |-> {}]
  IN  {<<>>, <<a>>, <<a, b>>, <<c, d>>, <<c, a, d, b>>}

\* the calls drawn: the variant, the number of queries buildQueries gives,
\* and for ProwlarrAddon its configured indexer names and whether its
\* indexers are preconfigured
AddonsDrawn ==
  {[variant |-> v, queries |-> n, names |-> {}, preconfigured |-> <<>>] :
     v \in {"torznab", "aggregate"}, n \in 0..MaxQueries}
  \cup {[variant |-> "prowlarr", queries |-> n, names |-> ns, preconfigured |-> p] :
          n \in 0..MaxQueries, ns \in {{}, {"b"}},
          p \in {l \in IndexersDrawn : Len(l) \in {0, 2}}}

\* a variant of DedupKey that prefers the download URL
DedupKeyUrlFirst(result) ==
  IF result.downloadUrl # "" THEN result.downloadUrl ELSE result.infoHash

\* seenTorrents.has / add use infoHash ?? downloadUrl
DedupKey(result) ==
  IF result.infoHash # "" THEN result.infoHash ELSE result.downloadUrl

\* the for loop over the results of one search, from result k on: a result
\* without info hash and download URL is skipped, one whose key was seen is
\* skipped, any other is recorded as seen and pushed
RECURSIVE CollectFrom(_, _, _, _)
CollectFrom(results, k, list, seen) ==
  IF k > Len(results) THEN [torrents |-> list, seenTorrents |-> seen]
  ELSE LET result == results[k]
       IN  IF result.infoHash = "" /\ result.downloadUrl = ""
           THEN CollectFrom(results, k + 1, list, seen)
           ELSE IF DedupKey(result) \in seen
           THEN CollectFrom(results, k + 1, list, seen)
           ELSE CollectFrom(results, k + 1,
                            Append(list, [hash |-> result.infoHash,
                                          downloadUrl |-> result.downloadUrl]),
                            seen \cup {DedupKey(result)})

\* the indexers ProwlarrAddon searches: enabled torrent indexers, all of them
\* when neither names nor tags are chosen, else those with a chosen tag or a
\* configured name
ChosenIndexers(available, names, chosenTags) ==
  SelectSeq(available,
            LAMBDA indexer :
              /\ indexer.enable
              /\ indexer.protocol = "torrent"
              /\ \/ names = {} /\ chosenTags = {}
                 \/ chosenTags # {} /\ indexer.tags \cap chosenTags # {}
                 \/ names # {} /\ indexer.name \in names)

\* one task per query and indexer, the queries outermost
TasksFor(queries, n) ==
  [k \in 1..(queries * n) |->
     [query |-> ((k - 1) \div n) + 1, indexer |-> ((k - 1) % n) + 1]]

\* the tasks as they are when the race begins: all running, or with the query
\* limit the first QueryLimit of them running and the others queued
Started(tasks, limited) ==
  [k \in 1..Len(tasks) |->
     [query |-> tasks[k].query, indexer |-> tasks[k].indexer,
      state |-> IF limited /\ k > QueryLimit THEN "queued" ELSE "inflight"]]

\* task t has settled: with the query limit the oldest queued task starts
AfterSettled(tasks, t) ==
  LET done == [tasks EXCEPT ![t].state = "done"]
      queued == {k \in 1..Len(done) : done[k].state = "queued"}
  IN  IF queued = {} THEN done
      ELSE [done EXCEPT ![Min(queued)].state = "inflight"]

AllSettled(tasks) == \A k \in 1..Len(tasks) : tasks[k].state = "done"

\* a variant of AfterRace that returns the list also when it is empty
AfterRaceReturning(list) == IF Len(list) < 0 THEN "thrown" ELSE "returned"

\* what follows the race: the call throws when nothing was collected
AfterRace(list) == IF Len(list) = 0 THEN "thrown" ELSE "returned"

\* the tasks are created and started, the deadline timer is set, and the
\* call waits for the race
BeginRace(tasks, limited) ==
  /\ searchTasks' = Started(tasks, limited)
  /\ deadline' = "set"
  /\ searchPc' = "race"

\* the call returns [] before any search was started
ReturnEmpty ==
  /\ searchPc' = "returned"
  /\ UNCHANGED <<searchTasks, deadline>>

\* _searchTorrents is called and runs to its first await
SearchCall ==
  /\ searchPc = "called"
  /\ IF addon.variant = "aggregate"
     THEN /\ IF addon.queries = 0 THEN ReturnEmpty
             ELSE BeginRace(TasksFor(addon.queries, 1), FALSE)
          /\ indexers' = indexers
     ELSE IF addon.variant = "prowlarr" /\ Len(addon.preconfigured) > 0
     THEN /\ indexers' = addon.preconfigured
          /\ searchPc' = "tags"
          /\ UNCHANGED <<searchTasks, deadline>>
     ELSE /\ searchPc' = "indexers"
          /\ UNCHANGED <<indexers, searchTasks, deadline>>
  /\ UNCHANGED <<addon, torrents, seenTorrents, outsideSearch>>

\* the request for the indexers settles
IndexersSettle ==
  /\ searchPc = "indexers"
  /\ \/ /\ searchPc' = "failed"
        /\ UNCHANGED <<indexers, searchTasks, deadline>>
     \/ \E answer \in IndexersDrawn :
          /\ indexers' = answer
          /\ IF addon.variant = "prowlarr"
             THEN /\ searchPc' = "tags"
                  /\ UNCHANGED <<searchTasks, deadline>>
             ELSE IF Len(answer) = 0 \/ addon.queries = 0 THEN ReturnEmpty
             ELSE BeginRace(TasksFor(addon.queries, Len(answer)), FALSE)
  /\ UNCHANGED <<addon, torrents, seenTorrents, outsideSearch>>

\* the request for the tags settles; a failure leaves chosenTags empty
TagsSettle ==
  /\ searchPc = "tags"
  /\ \E chosenTags \in {{}, {1}} :
       LET chosen == ChosenIndexers(indexers, addon.names, chosenTags)
       IN  IF addon.queries = 0 \/ Len(chosen) = 0 THEN ReturnEmpty
           ELSE BeginRace(TasksFor(addon.queries, Len(chosen)), TRUE)
  /\ UNCHANGED <<addon, indexers, torrents, seenTorrents, outsideSearch>>

\* the search of task t settles: its results are collected (none when it
\* failed), and when it was the last one while the call waits, the race is
\* decided and the call goes on
TaskSettle(t) ==
  /\ searchTasks[t].state = "inflight"
  /\ \E results \in ResultLists(MaxResults) :
       LET collected == CollectFrom(results, 1, torrents, seenTorrents)
       IN  /\ torrents' = collected.torrents
           /\ seenTorrents' = collected.seenTorrents
           /\ searchTasks' = AfterSettled(searchTasks, t)
           /\ searchPc' = IF searchPc = "race" /\ AllSettled(AfterSettled(searchTasks, t))
                          THEN AfterRace(collected.torrents)
                          ELSE searchPc
  /\ UNCHANGED <<addon, indexers, deadline, outsideSearch>>

\* the deadline timer fires: while the call waits, the race is decided
DeadlineFires ==
  /\ deadline = "set"
  /\ deadline' = "fired"
  /\ searchPc' = IF searchPc = "race" THEN AfterRace(torrents) ELSE searchPc
  /\ UNCHANGED <<addon, indexers, searchTasks, torrents, seenTorrents, outsideSearch>>

\* no formatter is in use
NoFormatter ==
  FieldsStored([name |-> "", description |-> ""], UserData, HardcodedShape,
               [family |-> "none"])

NextSearch ==
  \/ SearchCall
  \/ IndexersSettle
  \/ TagsSettle
  \/ \E t \in DOMAIN searchTasks : TaskSettle(t)
  \/ DeadlineFires

\* an addon is constructed and _searchTorrents is called on it
InitSearch ==
  /\ \E a \in AddonsDrawn : addon = a
  /\ searchPc = "called"
  /\ indexers = <<>>
  /\ searchTasks = <<>>
  /\ torrents = <<>>
  /\ seenTorrents = {}
  /\ deadline = "unset"
  /\ NoFormatter
  /\ NoRequests
  /\ NoCache

\* a timer that is set fires
SpecSearch == InitSearch /\ [][NextSearch]_vars /\ WF_vars(DeadlineFires)

\* ---------------------------------------------------------------------------
\* The stream route of the server: the gate that stops autoplay after
\* consecutive episodes

\* stream requests of one user
MaxRequests == 4

\* largest episodesBeforeCheck drawn
MaxEpisodes == 3

\* how far the clock moves, in units of the cooldown
MaxClock == 2

\* cooldownMs, in clock units; the clock starts more than one cooldown after
\* time 0
Cooldown == 1
StartOfTime == Cooldown + 1

\* the settings drawn: the gate off, or on with a threshold
GatesDrawn ==
  {[enabled |-> FALSE, episodesBeforeCheck |-> MaxEpisodes]}
  \cup {[enabled |-> TRUE, episodesBeforeCheck |-> n] : n \in 1..MaxEpisodes}

\* (await cache.get(key)) || { count: 0, lastAt: 0 }
PrevOf(entry) ==
  IF entry.set THEN [count |-> entry.count, lastAt |-> entry.lastAt]
  ELSE [count |-> 0, lastAt |-> 0]

\* withinWindow ? prev.count + 1 : 1
NextCount(prev, now) ==
  IF now - prev.lastAt <= Cooldown THEN prev.count + 1 ELSE 1

\* what the request decides from the entry it read: at the threshold it
\* stores count 0 and answers with no streams, below it stores the count and
\* goes on to the streams
Decided(request, entry, threshold) ==
  LET nextCount == NextCount(PrevOf(entry), request.now)
  IN  IF nextCount >= threshold
      THEN [request EXCEPT !.pc = "set", !.count = 0, !.answer = "empty"]
      ELSE [request EXCEPT !.pc = "set", !.count = nextCount, !.answer = "streams"]

\* a request of the given type arrives: outside the gate it is answered with
\* streams, inside it takes Date.now() and awaits cache.get
RequestArrives(type) ==
  /\ Len(requests) < MaxRequests
  /\ LET id == Len(requests) + 1
         gated == areYouStillThere.enabled /\ type = "series"
     IN  /\ requests' =
               Append(requests, [type |-> type, now |-> clock,
                                 pc |-> IF gated THEN "get" ELSE "done",
                                 count |-> 0,
                                 answer |-> IF gated THEN "" ELSE "streams"])
         /\ gateLog' = IF gated THEN Append(gateLog, <<id, "arrives">>)
                       ELSE gateLog \o <<<<id, "arrives">>, <<id, "streams">>>>
  /\ UNCHANGED <<areYouStillThere, stored, clock, outsideGate>>

\* cache.get of request r settles with the entry the cache holds
GetSettles(r) ==
  /\ requests[r].pc = "get"
  /\ requests' = [requests EXCEPT
                    ![r] = Decided(@, stored, areYouStillThere.episodesBeforeCheck)]
  /\ UNCHANGED <<areYouStillThere, stored, clock, gateLog, outsideGate>>

\* cache.set of request r settles: the entry is stored and the request
\* answered
SetSettles(r) ==
  /\ requests[r].pc = "set"
  /\ stored' = [count |-> requests[r].count, lastAt |-> requests[r].now, set |-> TRUE]
  /\ requests' = [requests EXCEPT ![r].pc = "done"]
  /\ gateLog' = Append(gateLog, <<r, requests[r].answer>>)
  /\ UNCHANGED <<areYouStillThere, clock, outsideGate>>

\* time passes
Tick ==
  /\ clock < StartOfTime + MaxClock
  /\ clock' = clock + 1
  /\ UNCHANGED <<areYouStillThere, stored, requests, gateLog, outsideGate>>

NextGate ==
  \/ \E type \in {"series", "movie"} : RequestArrives(type)
  \/ \E r \in DOMAIN requests : GetSettles(r)
  \/ \E r \in DOMAIN requests : SetSettles(r)
  \/ Tick

\* the server is up, the cache empty
InitGate ==
  /\ \E g \in GatesDrawn : areYouStillThere = g
  /\ stored = [count |-> 0, lastAt |-> 0, set |-> FALSE]
  /\ requests = <<>>
  /\ clock = StartOfTime
  /\ gateLog = <<>>
  /\ NoFormatter
  /\ NoSearch
  /\ NoCache

SpecGate == InitGate /\ [][NextGate]_vars

\* ---------------------------------------------------------------------------
\* The cache-based formatter of packages/core/src/formatters/base.ts:
\* parseString renders a template by matching and replacing its expressions
\* one after the other, through the LocalCache of the formatter instance

\* the one element of a set of one: Only({e : x \in {v}}) is e with x
\* standing for the value of v
Only(S) == CHOOSE x \in S : TRUE

\* the sections and the property names of the variable pattern (debug is
\* added to the keys of convertStreamToParseValue({}))
CachedSections == <<"config", "stream", "addon", "service", "debug">>

CachedProperties ==
  UNION {SeqToSet(HardcodedShape[k].fields) :
           k \in {n \in DOMAIN HardcodedShape : HardcodedShape[n].key # "tools"}}

\* the modifier names of the table `modifiers` that are matched as written
CachedModifierNames ==
  SeqToSet(StringModifierKeys) \cup SeqToSet(NumberModifierKeys)
  \cup SeqToSet(ArrayModifierKeys) \cup SeqToSet(ExactConditionalKeys)
  \cup SeqToSet(PrefixConditionalKeys)

\* where `.*?` may stop from position q on: `.` matches no line terminator
DotEnds(str, q) ==
  {e \in q..Len(str) : \A k \in q..(e - 1) : ~IsLineTerminator(CharAt(str, k))}

\* the ends of `(section)\.(property)` at q; the pattern has the flag i
CachedVariableEnds(str, q) ==
  {q + Len(v[1]) + 1 + Len(v[2]) :
     v \in {x \in SeqToSet(CachedSections) \X CachedProperties :
              StartsWithAt(ToLowerCase(str), q, x[1] \o "." \o ToLowerCase(x[2]))}}

\* the ends of `::(modifier)` at q: a name, a prefix condition with its
\* text, or join('...') / join("...")
CachedModifierEnds(str, q) ==
  IF ~StartsWithAt(str, q, "::") THEN {}
  ELSE {q + 2 + Len(name) :
          name \in {n \in CachedModifierNames :
                      StartsWithAt(ToLowerCase(str), q + 2, n)}}
       \cup UNION {DotEnds(str, q + 2 + Len(op)) :
                     op \in {o \in SeqToSet(PrefixConditionalKeys) :
                               StartsWithAt(str, q + 2, o)}}
       \cup UNION {{e \in DotEnds(str, q + 8) : e >= q + 10 /\ StartsWithAt(str, e - 2, quote \o ")")} :
                     quote \in {x \in SeqToSet(JoinQuotes) :
                                  StartsWithAt(ToLowerCase(str), q + 2, "join(" \o x)}}

\* the ends of `::(comparator)::` at q
CachedComparatorEnds(str, q) ==
  {q + 4 + Len(c) :
     c \in {k \in SeqToSet(ComparatorKeys) :
              StartsWithAt(ToLowerCase(str), q, "::" \o k \o "::")}}

\* the end of `["..."||"..."]` at q (the texts hold no quote), or none
CheckEnds(str, q) ==
  IF ~StartsWithAt(str, q, "[\"") THEN {}
  ELSE LET a == IndexOf(SliceFrom(str, q + 2), "\"") + q + 2
       IN  IF a < q + 2 \/ ~StartsWithAt(str, a, "\"||\"") THEN {}
           ELSE LET b == IndexOf(SliceFrom(str, a + 4), "\"") + a + 4
                IN  IF b < a + 4 \/ ~StartsWithAt(str, b, "\"]") THEN {}
                    ELSE {b + 2}

\* the positions reached from S by any number of modifiers
RECURSIVE ModifierClosure(_, _)
ModifierClosure(str, S) ==
  Only({IF N = S THEN S ELSE ModifierClosure(str, N) :
          N \in {S \cup UNION {CachedModifierEnds(str, q) : q \in S}}})

\* the positions reached from S by modifiers and by a comparator followed by
\* a variable, any number of times
RECURSIVE SegmentClosure(_, _)
SegmentClosure(str, S) ==
  Only({Only({IF N = M THEN M ELSE SegmentClosure(str, N) :
                N \in {M \cup UNION {CachedVariableEnds(str, c) :
                                       c \in UNION {CachedComparatorEnds(str, q) : q \in M}}}}) :
          M \in {ModifierClosure(str, S)}})

\* the matches of the expression pattern that begin at the `{` at p: where
\* each ends, and where its check suffix begins (-1 without one)
MatchesAt(str, p) ==
  IF CharAt(str, p) # "{" THEN {}
  ELSE Only({{[index |-> p, lastIndex |-> e + 1, check |-> -1] :
                e \in {q \in body : CharAt(str, q) = "}"}}
             \cup UNION {{[index |-> p, lastIndex |-> e + 1, check |-> q] :
                            e \in {c \in CheckEnds(str, q) : CharAt(str, c) = "}"}} :
                           q \in body} :
               body \in {SegmentClosure(str, CachedVariableEnds(str, p + 1))}})

\* among the matches that begin at one `{`, the one the lazy texts give:
\* the shortest, with the check suffix when there is one
Preferred(found) ==
  Only({CHOOSE m \in shortest : \A o \in shortest : m.check >= o.check :
          shortest \in {{m \in found : \A o \in found : m.lastIndex <= o.lastIndex}}})

\* re.exec(str) from lastIndex: the leftmost match; none is [index |-> -1]
Exec(str, lastIndex) ==
  Only({IF starts = {} THEN [index |-> -1, lastIndex |-> 0, check |-> -1]
        ELSE Only({Preferred(found) : found \in {MatchesAt(str, Min(starts))}}) :
          starts \in {{p \in lastIndex..(Len(str) - 1) : MatchesAt(str, p) # {}}}})

\* localCache.get(key, getFn) when getFn gave `computed` and left the cache
\* as `after`: what is returned and the cache that results. A cached
\* undefined is computed again
CacheGet(cache, key, computed, after) ==
  IF key \in DOMAIN cache THEN [value |-> cache[key], cache |-> cache]
  ELSE [value |-> computed,
        cache |-> IF computed = UndefinedV THEN after
                  ELSE [k \in DOMAIN after \cup {key} |->
                          IF k = key THEN computed ELSE after[k]]]

\* `${result ?? ""}`
TextOrEmpty(v) == IF v.t \in {"null", "undefined"} THEN "" ELSE ToStr(v)

\* str.split(RegExp(comparator pattern, 'gi')): the pieces, each comparator
\* as written between the texts it separates
RECURSIVE CachedSplitOnComparators(_)
CachedSplitOnComparators(str) ==
  Only({IF q = -1 THEN <<str>>
        ELSE <<Between(str, 0, q), Between(str, q + 2, Min(CachedComparatorEnds(str, q)) - 2)>>
             \o CachedSplitOnComparators(SliceFrom(str, Min(CachedComparatorEnds(str, q)))) :
          q \in {MinOr({c \in 0..Len(str) : CachedComparatorEnds(str, c) # {}}, -1)}})

\* the match of singleValidModRe at q (no flag i): the end of the modifier,
\* which `::` or the end of the text must follow; -1 when there is none
SingleModifierEnd(str, q) ==
  LET ends == {e \in CachedModifierEnds(str, q) :
                 /\ e = Len(str) \/ StartsWithAt(str, e, "::")
                 /\ \/ Between(str, q + 2, e) \in CachedModifierNames
                    \/ \E op \in SeqToSet(PrefixConditionalKeys) : StartsWithAt(str, q + 2, op)
                    \/ StartsWithAt(str, q + 2, "join(")}
  IN  MinOr(ends, -1)

\* [...baseString.matchAll(singleValidModRe)]: the modifiers as written
RECURSIVE CachedModifierMatches(_, _)
CachedModifierMatches(str, q) ==
  IF q >= Len(str) THEN <<>>
  ELSE Only({IF e = -1 THEN CachedModifierMatches(str, q + 1)
             ELSE <<Between(str, q + 2, e)>> \o CachedModifierMatches(str, e) :
               e \in {SingleModifierEnd(str, q)}})

\* what parseModifiedVariable does with what the cache gave for modifier k
AfterModifier(mods, k, got, property) ==
  IF got.value = UndefinedV
  THEN [resolved |->
          Error(IF property.t \in {"string", "number", "boolean"}
                THEN "{unknown_" \o property.t \o "_modifier(" \o mods[k] \o ")}"
                ELSE IF property.t \in {"array", "null"}
                THEN "{unknown_array_modifier(" \o mods[k] \o ")}"
                ELSE "{unknown_modifier(" \o mods[k] \o ")}"),
        cache |-> got.cache, next |-> FALSE]
  ELSE [resolved |-> Result(got.value), cache |-> got.cache, next |-> TRUE]

\* the loop over the modifiers of parseModifiedVariable from modifier k on:
\* each is applied through the cache under the key `${result ?? ""}::${mod}`
RECURSIVE ApplyThroughCache(_, _, _, _, _)
ApplyThroughCache(mods, k, result, property, cache) ==
  IF k > Len(mods) THEN [resolved |-> Result(result), cache |-> cache]
  ELSE Only({IF after.next
             THEN ApplyThroughCache(mods, k + 1, after.resolved.result, property,
                                    after.cache)
             ELSE [resolved |-> after.resolved, cache |-> after.cache] :
               after \in {AfterModifier(mods, k,
                            CacheGet(cache, TextOrEmpty(result) \o "::" \o mods[k],
                                     applySingleModifier(result, mods[k], 0), cache),
                            property)}})

\* parseModifiedVariable(baseString, value, localCache): the resolved
\* variable and the cache it leaves; fields is the ParseValue by path
CachedParseModifiedVariable(baseString, fields, cache) ==
  LET variableType == Between(baseString, 0, IndexOf(baseString, "."))
      rest == SliceFrom(baseString, Len(variableType) + 1)
      propertyName == IF IndexOf(rest, "::") = -1 THEN rest
                      ELSE Between(rest, 0, IndexOf(rest, "::"))
      path == variableType \o "." \o propertyName
  IN  IF variableType \notin SeqToSet(CachedSections)
      THEN [resolved |-> Error("{unknown_variableType(" \o variableType \o ")}"),
            cache |-> cache]
      ELSE IF path \notin DOMAIN fields
      THEN [resolved |-> Error("{unknown_propertyName(" \o path \o ")}"),
            cache |-> cache]
      ELSE ApplyThroughCache(CachedModifierMatches(SliceFrom(rest, Len(propertyName)), 0),
                             1, fields[path], fields[path], cache)

\* localCache.get(baseString, () => parseModifiedVariable(baseString, ...))
ResolveOne(baseString, fields, cache) ==
  IF baseString \in DOMAIN cache THEN [value |-> cache[baseString], cache |-> cache]
  ELSE Only({CacheGet(cache, baseString, computed.resolved, computed.cache) :
               computed \in {CachedParseModifiedVariable(baseString, fields, cache)}})

\* the variables of an expression resolved in order from piece k on, each
\* through the cache under its own text
RECURSIVE ResolveThroughCache(_, _, _, _)
ResolveThroughCache(pieces, k, fields, cache) ==
  IF k > Len(pieces) THEN [results |-> <<>>, cache |-> cache]
  ELSE Only({Only({[results |-> <<got.value>> \o others.results,
                    cache |-> others.cache] :
                     others \in {ResolveThroughCache(pieces, k + 2, fields, got.cache)}}) :
               got \in {ResolveOne(pieces[k], fields, cache)}})

\* result.error ?? result.result?.toString(), as `+` appends it to a text
ReplacementText(resolved) ==
  IF resolved.kind = "error" THEN resolved.error
  ELSE IF resolved.result.t \in {"null", "undefined"} THEN "undefined"
  ELSE ToStr(resolved.result)

\* is the line kept by the filter of parseStringHelper
CachedKeepsLine(line) == Trim(line) # "" /\ ~Includes(line, "{tools.removeLine}")

\* the end of a match of /\{tools.newLine\}/ at q (the dot stands for any
\* character but a line terminator), -1 when there is none
CachedSentinelEnd(s, q) ==
  IF /\ StartsWithAt(s, q, "{tools") /\ StartsWithAt(s, q + 7, "newLine}")
     /\ ~IsLineTerminator(CharAt(s, q + 6))
  THEN q + 15 ELSE -1

\* s.replace(/\{tools.newLine\}/g, '\n')
RECURSIVE CachedReplaceSentinel(_)
CachedReplaceSentinel(s) ==
  LET starts == {q \in 0..(Len(s) - 15) : CachedSentinelEnd(s, q) # -1}
  IN  IF starts = {} THEN s
      ELSE Between(s, 0, Min(starts)) \o "\n"
           \o CachedReplaceSentinel(SliceFrom(s, Min(starts) + 15))

\* the chain parseStringHelper returns its text through
CachedPostProcess(s) ==
  CachedReplaceSentinel(
    JoinWith(SelectSeq(SplitOnChar(ReplaceAll(s, "\\n", "\n"), "\n"), CachedKeepsLine), "\n"))

\* the ParseValue of the cache-based formatter: the namespace without the
\* tools section (the templates of the model name no debug property)
CachedParseValue(stream) ==
  Only({[path \in {p \in ParseValuePaths : ~StartsWithAt(p, 0, "tools.")} |->
           parseValue.fields[path]] :
          parseValue \in {convertStreamToParseValue(stream, UserData, 0)}})

\* how many iterations and nested calls a parseString inside a check may
\* take before it is held to run forever
MaxIterations == 4

\* the two texts of the check suffix that begins at q
CheckTexts(str, q) ==
  LET a == IndexOf(SliceFrom(str, q + 2), "\"") + q + 2
      b == IndexOf(SliceFrom(str, a + 4), "\"") + a + 4
  IN  [true |-> Between(str, q + 2, a), false |-> Between(str, a + 4, b)]

\* the text the check suffix turns a boolean into: parseString(text) || text
\* of the text its value chooses
CheckedText(value, texts, checkTrue, checkFalse) ==
  IF value.b
  THEN (IF Truthy(checkTrue.value) THEN checkTrue.value.s ELSE texts.true)
  ELSE (IF Truthy(checkFalse.value) THEN checkFalse.value.s ELSE texts.false)

\* str with the match replaced by text, and re.lastIndex set back to where
\* the match began
Replaced(str, matches, text, cache) ==
  [done |-> FALSE, diverged |-> FALSE,
   str |-> Between(str, 0, matches.index) \o text \o SliceFrom(str, matches.lastIndex),
   lastIndex |-> matches.index, cache |-> cache]

\* the expression of the match resolved and reduced over its comparators
Reduced(splitOnComparators, fields, cache) ==
  Only({[result |-> ReduceResolved(Head(resolved.results), Tail(resolved.results),
                      [k \in 1..((Len(splitOnComparators) - 1) \div 2) |->
                         splitOnComparators[2 * k]]),
         cache |-> resolved.cache] :
          resolved \in {ResolveThroughCache(splitOnComparators, 1, fields, cache)}})

RECURSIVE ParseIteration(_, _, _, _, _)
RECURSIVE CachedParseString(_, _, _, _)
RECURSIVE ParseLoop(_, _, _, _, _)

\* the body of the loop of parseStringHelper for the match `matches`
ParseMatch(str, matches, fields, cache, fuel) ==
  Only({IF ~(reduced.result.kind = "result" /\ reduced.result.result.t = "boolean"
             /\ matches.check # -1)
        THEN Replaced(str, matches, ReplacementText(reduced.result), reduced.cache)
        ELSE Only({Only({IF checkTrue.diverged \/ checkFalse.diverged
                         THEN [done |-> FALSE, diverged |-> TRUE, str |-> str,
                               lastIndex |-> matches.index, cache |-> cache]
                         ELSE Replaced(str, matches,
                                CheckedText(reduced.result.result,
                                            CheckTexts(str, matches.check),
                                            checkTrue, checkFalse),
                                checkFalse.cache) :
                           checkFalse \in {CachedParseString(
                                             CheckTexts(str, matches.check).false,
                                             fields, checkTrue.cache, fuel - 1)}}) :
                     checkTrue \in {CachedParseString(
                                      CheckTexts(str, matches.check).true,
                                      fields, reduced.cache, fuel - 1)}}) :
          reduced \in {Reduced(
                         CachedSplitOnComparators(
                           Between(str, matches.index + 1,
                                   IF matches.check = -1 THEN matches.lastIndex - 1
                                   ELSE matches.check)),
                         fields, cache)}})

\* one iteration of the loop of parseStringHelper over str with re.lastIndex
\* = lastIndex: done when re.exec finds no match, diverged when a
\* parseString it calls does not return
ParseIteration(str, lastIndex, fields, cache, fuel) ==
  Only({IF matches.index = -1
        THEN [done |-> TRUE, diverged |-> FALSE, str |-> str,
              lastIndex |-> 0, cache |-> cache]
        ELSE ParseMatch(str, matches, fields, cache, fuel) :
          matches \in {Exec(str, lastIndex)}})

\* the loop of parseStringHelper run to its end, within fuel iterations
ParseLoop(str, lastIndex, fields, cache, fuel) ==
  IF fuel <= 0 THEN [diverged |-> TRUE, str |-> str, cache |-> cache]
  ELSE Only({IF step.diverged THEN [diverged |-> TRUE, str |-> str, cache |-> cache]
             ELSE IF step.done
             THEN [diverged |-> FALSE, str |-> step.str, cache |-> step.cache]
             ELSE ParseLoop(step.str, step.lastIndex, fields, step.cache, fuel - 1) :
               step \in {ParseIteration(str, lastIndex, fields, cache, fuel)}})

\* parseString(str, value, localCache): the text (null for an empty str)
\* and the cache it leaves
CachedParseString(str, fields, cache, fuel) ==
  IF str \in DOMAIN cache
  THEN [diverged |-> FALSE, value |-> cache[str], cache |-> cache]
  ELSE IF str = ""
  THEN [diverged |-> FALSE] @@ CacheGet(cache, str, NullV, cache)
  ELSE Only({IF run.diverged THEN [diverged |-> TRUE, value |-> NullV, cache |-> cache]
             ELSE [diverged |-> FALSE]
                  @@ CacheGet(cache, str, StrV(CachedPostProcess(run.str)), run.cache) :
               run \in {ParseLoop(str, 0, fields, cache, fuel)}})

\* records whose texts are themselves written like an expression
S4 == [path \in {"parsedFile.title"} |-> StrV("{stream.title}")]
S5 ==
  [path \in {"filename", "parsedFile.title", "proxied"} |->
     CASE path = "filename" -> StrV("{stream.title}")
       [] path = "parsedFile.title" -> StrV("T")
       [] path = "proxied" -> BoolV(TRUE)]
CachedStreams == {S1, S2, S3, S4, S5}

\* the templates an instance is constructed with
CachedTemplates ==
  { [name |-> "{stream.title}",
     description |-> "{stream.filename} {stream.size::hex}"],
    [name |-> "{stream.proxied::istrue[\"P\"||\"{stream.title}\"]}",
     description |-> "{stream.title::upper}\\n{stream.title::length}"],
    [name |-> "a{stream.library::or::stream.proxied[\"y\"||\"n\"]}",
     description |-> ""] }

\* how many format() calls an instance is followed through
MaxFormats == 3

\* the state of a parseString(str) entered by format(): answered from the
\* cache, or at the head of the loop of parseStringHelper
Entered(stream, str, cache) ==
  IF str \in DOMAIN cache \/ str = ""
  THEN [looping |-> FALSE] @@ CachedParseString(str, CachedParseValue(stream), cache, 0)
  ELSE [looping |-> TRUE, value |-> NullV, cache |-> cache, diverged |-> FALSE]

\* `parseString(...) || ''`
TextOrBlank(v) == IF Truthy(v) THEN v.s ELSE ""

\* format() with config.name rendered as `name` and the cache as it is then:
\* parseString(config.description) is entered, and format() returns when
\* the cache answers it
DescriptionEntered(stream, name, cache) ==
  \E entered \in {Entered(stream, cacheConfig.description, cache)} :
    IF entered.looping
    THEN /\ parse' = [phase |-> "description", stream |-> stream,
                      str |-> cacheConfig.description, lastIndex |-> 0, name |-> name]
         /\ localCache' = entered.cache
         /\ UNCHANGED formatted
    ELSE /\ parse' = [phase |-> "idle"]
         /\ localCache' = entered.cache
         /\ formatted' = Append(formatted,
                                [stream |-> stream, name |-> name,
                                 description |-> TextOrBlank(entered.value)])

\* format(stream) is called: parseString(config.name) is entered
CachedFormat(stream) ==
  /\ parse.phase = "idle"
  /\ Len(formatted) < MaxFormats
  /\ \E entered \in {Entered(stream, cacheConfig.name, localCache)} :
         IF entered.looping
         THEN /\ parse' = [phase |-> "name", stream |-> stream,
                           str |-> cacheConfig.name, lastIndex |-> 0, name |-> ""]
              /\ UNCHANGED <<localCache, formatted>>
         ELSE DescriptionEntered(stream, TextOrBlank(entered.value), entered.cache)
  /\ UNCHANGED <<cacheConfig, outsideCache>>

\* the loop of parseStringHelper takes one iteration; when re.exec finds no
\* match the text is returned through the cache, and format() goes on. An
\* iteration whose nested parseString does not return changes nothing
ParseStep ==
  /\ parse.phase \in {"name", "description"}
  /\ \E step \in {ParseIteration(parse.str, parse.lastIndex,
                                 CachedParseValue(parse.stream), localCache,
                                 MaxIterations)} :
       IF step.diverged THEN UNCHANGED <<localCache, parse, formatted>>
       ELSE IF ~step.done
       THEN /\ parse' = [parse EXCEPT !.str = step.str, !.lastIndex = step.lastIndex]
            /\ localCache' = step.cache
            /\ UNCHANGED formatted
       ELSE \E returned \in {CacheGet(localCache,
                                      IF parse.phase = "name" THEN cacheConfig.name
                                      ELSE cacheConfig.description,
                                      StrV(CachedPostProcess(step.str)), step.cache)} :
              IF parse.phase = "name"
              THEN DescriptionEntered(parse.stream, TextOrBlank(returned.value),
                                      returned.cache)
              ELSE /\ parse' = [phase |-> "idle"]
                   /\ localCache' = returned.cache
                   /\ formatted' = Append(formatted,
                                          [stream |-> parse.stream, name |-> parse.name,
                                           description |-> TextOrBlank(returned.value)])
  /\ UNCHANGED <<cacheConfig, outsideCache>>

NextCache ==
  \/ \E stream \in CachedStreams : CachedFormat(stream)
  \/ ParseStep

\* new BaseFormatter(config, userData): a LocalCache of its own, empty
InitCache ==
  /\ cacheConfig \in CachedTemplates
  /\ localCache = <<>>
  /\ parse = [phase |-> "idle"]
  /\ formatted = <<>>
  /\ NoFormatter
  /\ NoSearch
  /\ NoRequests

SpecCache == InitCache /\ [][NextCache]_vars


(***************************************************************************)
(* Properties.                                                             *)
(***************************************************************************)

RECURSIVE NodesIn(_)
\* the nodes of a list of compiled functions, and those nested in them
NodesIn(fns) ==
  UNION {{fns[n]} \cup NodesIn(fns[n].nested) : n \in 1..Len(fns)}

\* the nodes the two compiled templates of the instance hold
CompiledNodes ==
  NodesIn(precompiledNameFunction.compiledVariableTemplateFns)
  \cup NodesIn(precompiledDescriptionFunction.compiledVariableTemplateFns)

\* the namespaces of the format() call that ran last, for every draw of
\* Math.random (each call is the last one in the state it ends in)
CallValues ==
  UNION {{convertStreamToParseValue(history[k].stream, userData, rnd) :
            rnd \in RandomDraws(config, history[k].stream, userData)} :
           k \in {Len(history)} \ {0}}

\* the reduced result of the node's variable text as a call has spliced it
ReducedOf(node, pv) ==
  ReducedResolvedVariable(NestedVariables(node, regexBuilder, pv).variableTemplate,
                          regexBuilder, pv)

\* no nested resolver of the node throws
Resolves(node, pv) == ~NestedVariables(node, regexBuilder, pv).thrown

\* C1: when the segments, modifiers and comparators of an expression reduce
\* to an error tag E, the expression resolves to exactly E, with or without
\* a conditional suffix
C1_ErrorReachesTop ==
  \A pv \in CallValues : \A node \in CompiledNodes :
    (Resolves(node, pv) /\ ReducedOf(node, pv).kind = "error")
      => getResolvedVariable(node, regexBuilder, pv) = ReducedOf(node, pv)

\* the index, in the variable text without white space, of the placeholder
\* of the nested function fn
PlaceholderIndex(node, fn) ==
  (fn.insertedIndex - node.leftBracketIndex - Len("{"))
  - node.numWhitespaceRemovedBeforeN[fn.insertedIndex - node.leftBracketIndex]

RECURSIVE ExactSplice(_, _, _, _)
\* text with the value of each nested function put in the place of its own
\* placeholder, the rightmost first
ExactSplice(node, nested, text, pv) ==
  IF nested = <<>> THEN text
  ELSE ExactSplice(node, Tail(nested),
                   addResolvedVariable(
                     text, Index(PlaceholderIndex(node, Head(nested))),
                     ResolvedToString(getResolvedVariable(Head(nested), regexBuilder, pv))),
                   pv)

NestingExample == "{config.addonName::length::>={stream.size::string::length}}"

\* C2: a nested expression inside the variable text is resolved first and
\* its value replaces exactly its placeholder there; the nesting example
\* renders false for the addon name AIO and the size 1024
C2_NestedReplacesPlaceholder ==
  /\ \A pv \in CallValues : \A node \in CompiledNodes :
       (~node.hasCheck /\ node.nested # <<>> /\ Resolves(node, pv))
         => NestedVariables(node, regexBuilder, pv).variableTemplate
              = ExactSplice(node, node.nested, node.globalVariableTemplate, pv)
  /\ \A k \in 1..Len(history) :
       (config.name = NestingExample /\ history[k].stream = S1
        /\ ~HasCaseInsensitiveDuplicate(regexBuilder))
         => history[k].outcome.name = "false"

UnknownFieldTemplate == "{stream.doesnotexist}"

StrictCheckSuffix(s, p) ==
  /\ StartsWithAt(s, p, "[\"")
  /\ StartsWithAt(s, Len(s) - 3, "\"]}")
  /\ \E m \in (p + 2)..(Len(s) - 7) : StartsWithAt(s, m, "\"||\"")

\* is str, white space apart, an expression of the grammar
WellFormed(str, shape) ==
  \E p \in SuffixStarts(ToLowerCase(RemoveAllWS(str)), shape) :
    \/ p = Len(RemoveAllWS(str)) - 1 /\ CharAt(RemoveAllWS(str), p) = "}"
    \/ StrictCheckSuffix(ToLowerCase(RemoveAllWS(str)), p)

\* C4: only well-formed expressions of the grammar are compiled, and a
\* template without braces renders as itself, post-processing apart
C4_OnlyGrammarCompiled ==
  /\ \A node \in CompiledNodes \cup NodesIn(scan.compiledVariableTemplateFns) :
       WellFormed(node.matched, regexBuilder)
  /\ \A k \in 1..Len(history) : \A t \in {"name", "description"} :
       (history[k].outcome.kind = "fulfilled"
        /\ ~Includes(config[t], "{") /\ ~Includes(config[t], "}"))
         => history[k].outcome[t] = PostProcess(config[t])

\* C5: on a namespace without collisions every format() call returns its
\* two strings, whatever the templates and the record
C5_FormatReturns ==
  \A k \in 1..Len(history) :
    ~HasCaseInsensitiveDuplicate(regexBuilder)
      => history[k].outcome.kind = "fulfilled"

\* C6: the constructor of a formatter whose namespace shape has a
\* case-insensitive collision does not return
C6_CollisionFailsConstruction ==
  HasCaseInsensitiveDuplicate(regexBuilder) => pc # "Constructed"

\* does the template use the random modifier
UsesRandom(template) == Includes(ToLowerCase(template), "::random")

BranchFor(v, trueText, falseText) ==
  IF v.t = "boolean" THEN Result(StrV(IF v.b THEN trueText ELSE falseText))
  ELSE Error("{cannot_coerce_boolean_for_check_from(" \o ToStr(v) \o ")}")

\* C8: an expression with a conditional suffix renders its true text for the
\* reduced result true, its false text for false, and the tag
\* cannot_coerce_boolean_for_check_from(v) for any other value v
C8_ConditionalBranches ==
  \A pv \in CallValues : \A node \in CompiledNodes :
    (node.hasCheck /\ Resolves(node, pv) /\ ReducedOf(node, pv).kind = "result")
      => getResolvedVariable(node, regexBuilder, pv)
           = BranchFor(ReducedOf(node, pv).result,
                       NestedVariables(node, regexBuilder, pv).true,
                       NestedVariables(node, regexBuilder, pv).false)

\* the three cases were rendered: true, false, and two values that are not
\* boolean
C8_Witness ==
  \E j, k \in 1..Len(history) :
    /\ history[j].outcome.description
         = "T {cannot_coerce_boolean_for_check_from(open arms)}"
    /\ history[k].outcome.description
         = "F {cannot_coerce_boolean_for_check_from(null)}"

\* the text {stream.<field>} renders for the record: the value, nothing
\* when the record has none
FieldText(stream, field) ==
  IF Truthy(Field(stream, OrNullSource[PathKey("stream." \o field)]))
  THEN ToStr(Field(stream, OrNullSource[PathKey("stream." \o field)]))
  ELSE ""

\* a branch text with the value of each nested expression in its place
BranchValue(layout, tail, stream) ==
  JoinAll([i \in 1..Len(layout) |->
             layout[i].lit \o FieldText(stream, layout[i].field)]) \o tail

\* the copies of the texts of the drawn expression a call on `stream`
\* should end its NESTED VARIABLES step with
ExpectedLocal(stream) ==
  [variableTemplate |-> "stream.proxied::istrue",
   true |-> BranchValue(TrueLayout(drawn.true), "", stream),
   false |-> BranchValue(FalseLayout(drawn.false), FalseTail, stream),
   thrown |-> FALSE, message |-> ""]

\* what the drawn template should render for `stream`
ExpectedName(stream) ==
  "ab" \o (IF stream["proxied"].b
           THEN BranchValue(TrueLayout(drawn.true), "", stream)
           ELSE BranchValue(FalseLayout(drawn.false), FalseTail, stream))
  \o "c"

\* C9: nested expressions in the branch texts of a conditional suffix are
\* each replaced in their own place, the other branch and the variable text
\* untouched, whatever the white space and the number of nested expressions
C9_BranchSplice ==
  \A k \in 1..Len(history) :
    drawn.family = "check"
      => /\ Len(precompiledNameFunction.compiledVariableTemplateFns) = 1
         /\ \A node \in SeqToSet(precompiledNameFunction.compiledVariableTemplateFns) :
              /\ Len(node.nested) = drawn.true + drawn.false
              /\ NestedVariables(node, regexBuilder,
                                 convertStreamToParseValue(history[k].stream,
                                                           userData, 0))
                   = ExpectedLocal(history[k].stream)
         /\ history[k].outcome
              = [kind |-> "fulfilled", name |-> ExpectedName(history[k].stream),
                 description |-> "", reason |-> ""]

\* a call has run on a template with white space in every gap and two nested
\* expressions in each branch, one of them of length zero
C9_Witness ==
  /\ drawn.family = "check"
  /\ \A g \in Gaps : drawn.ws[g] >= 1
  /\ drawn.true >= 2 /\ drawn.false >= 2
  /\ \E k \in 1..Len(history) :
       /\ history[k].stream = S1
       /\ history[k].outcome.name = "abaopen armsc"

\* the modifiers written in allModifiers, their names recognised whatever
\* the letter case
WrittenModifiers(allModifiers) ==
  ModifierNames(allModifiers, ModifierMatchList(ToLowerCase(allModifiers), TRUE))

\* the namespace paths the text of a segment starts with, letter case apart
SegmentPaths(segment) ==
  {path \in ParseValuePaths :
     /\ StartsWithAt(ToLowerCase(segment), 0, ToLowerCase(path))
     /\ Len(segment) = Len(path) \/ StartsWithAt(segment, Len(path), modifierPrefix)}

\* C10: the value of a segment x::m1::...::mk is mk(...m1(x)...): every
\* modifier written is applied once, in the written order
C10_ModifiersInOrder ==
  \A pv \in CallValues : \A node \in CompiledNodes :
    (~node.hasCheck /\ node.nested = <<>>
     /\ Len(SplitOnComparators(node.globalVariableTemplate, TRUE)) = 1)
      => \A path \in SegmentPaths(node.globalVariableTemplate) :
           getResolvedVariable(node, regexBuilder, pv)
             = ApplyModifiers(pv.fields[path], pv.fields[path],
                              WrittenModifiers(SliceFrom(node.globalVariableTemplate,
                                                         Len(path))),
                              pv.rnd)


\* the pieces the variable text of the node splits into on its comparators,
\* as parseVariable splits the text a call has spliced
SplitOf(node, pv) ==
  SplitOnComparators(NestedVariables(node, regexBuilder, pv).variableTemplate, TRUE)

\* the resolved variables of the segments of the node, left to right
SegmentsOf(node, pv) == ResolveSegments(SplitOf(node, pv), regexBuilder, pv)

\* the segments of the node that resolve to an error
FailingSegments(node, pv) ==
  {k \in 1..Len(SegmentsOf(node, pv)) : SegmentsOf(node, pv)[k].kind = "error"}

\* what format() would return if the name template rendered `text`
RendersName(text) ==
  [kind |-> "fulfilled", name |-> text, description |-> "", reason |-> ""]

\* C11: in an expression of two or more segments joined by comparators, when
\* some segments resolve to an error the reduction gives the error of the
\* leftmost failing segment, whatever the segments to its right are: the
\* call renders that error tag
C11_LeftmostErrorWins ==
  (drawn.family = "compare" /\ history # <<>>)
    => \A pv \in CallValues : \A node \in CompiledNodes :
         FailingSegments(node, pv) # {}
           => history[1].outcome =
                RendersName(SegmentsOf(node, pv)[Min(FailingSegments(node, pv))].error)

\* c(n-1)(... c2(c1(v1, v2), v3) ..., vn) for the values of the first n
\* segments and the comparators written between them
RECURSIVE PairwiseLeftToRight(_, _, _)
PairwiseLeftToRight(values, written, n) ==
  IF n = 1 THEN values[1].result
  ELSE comparatorKeyToFuncs(ToLowerCase(written[n - 1]),
                            PairwiseLeftToRight(values, written, n - 1),
                            values[n].result)

\* C12: an expression s1::c1::s2:: ... ::sn whose segments all resolve
\* evaluates to c(n-1)(... c2(c1(v1, v2), v3) ..., vn): pairwise, strictly
\* left to right, the comparator between segments k and k+1 being the one
\* written between them
C12_PairwiseLeftToRight ==
  (drawn.family = "compare" /\ history # <<>>)
    => \A pv \in CallValues : \A node \in CompiledNodes :
         (\A k \in 1..Len(SegmentsOf(node, pv)) : SegmentsOf(node, pv)[k].kind = "result")
           => getResolvedVariable(node, regexBuilder, pv) =
                Result(PairwiseLeftToRight(SegmentsOf(node, pv),
                                           ComparatorsOf(SplitOf(node, pv)),
                                           Len(SegmentsOf(node, pv))))

\* the top-level nodes of a compiled function, leftmost first
TopLevelNodes(fn) ==
  [k \in 1..Len(fn.compiledVariableTemplateFns) |->
     CHOOSE node \in SeqToSet(fn.compiledVariableTemplateFns) :
       node.insertedIndex =
         SortedSeq({fn.compiledVariableTemplateFns[n].insertedIndex :
                      n \in 1..Len(fn.compiledVariableTemplateFns)})[k]]

RECURSIVE SourceText(_)
RECURSIVE ExpandNested(_, _, _)
\* the text with the placeholder of each of the nodes (rightmost first)
\* replaced by the text the node was compiled from
ExpandNested(text, nodes, base) ==
  IF nodes = <<>> THEN text
  ELSE ExpandNested(Slice(text, 0, Head(nodes).insertedIndex - base)
                    \o SourceText(Head(nodes))
                    \o SliceFrom(text, Head(nodes).insertedIndex - base + Len(PLACEHOLDER)),
                    Tail(nodes), base)

\* the span of the template a node was compiled from, nested expressions
\* written out
SourceText(node) == ExpandNested(node.matched, node.nested, node.leftBracketIndex)

\* the working string from pos on, with the placeholder of each of the nodes
\* (leftmost first) replaced by the text listed for the node
RECURSIVE SpansReplaced(_, _, _, _)
SpansReplaced(str, nodes, texts, pos) ==
  IF nodes = <<>> THEN SliceFrom(str, pos)
  ELSE Slice(str, pos, Head(nodes).insertedIndex) \o Head(texts)
       \o SpansReplaced(str, Tail(nodes), Tail(texts),
                        Head(nodes).insertedIndex + Len(PLACEHOLDER))

\* the template a compiled function was compiled from, rebuilt from its
\* literal characters and the spans of its top-level expressions
TemplateOf(fn) ==
  IF fn.empty THEN ""
  ELSE SpansReplaced(fn.str, TopLevelNodes(fn),
                     [k \in 1..Len(TopLevelNodes(fn)) |-> SourceText(TopLevelNodes(fn)[k])],
                     0)

\* no top-level resolver of the compiled function throws for pv
AllResolve(fn, pv) ==
  \A n \in 1..Len(fn.compiledVariableTemplateFns) :
    getResolvedVariable(fn.compiledVariableTemplateFns[n], regexBuilder, pv).kind # "throw"

\* the template with every top-level span replaced by the string of its
\* resolver's result, post-processed as compileTemplate does
SpansRendered(fn, pv) ==
  [threw |-> FALSE,
   text |-> PostProcess(
     IF fn.empty THEN ""
     ELSE SpansReplaced(fn.str, TopLevelNodes(fn),
                        [k \in 1..Len(TopLevelNodes(fn)) |->
                           ResolvedToString(getResolvedVariable(TopLevelNodes(fn)[k],
                                                                regexBuilder, pv))],
                        0))]

\* C13: for a template with k >= 0 top-level recognised expressions, what
\* is rendered is the template with each top-level span replaced by the
\* string of its resolver's result (error tag, value string, or nothing for
\* null), every literal character outside the spans kept once, in order
C13_SpansReplacedLiteralsKept ==
  /\ \A fn \in {precompiledNameFunction, precompiledDescriptionFunction} :
       ~fn.null => TemplateOf(fn) \in {PreProcess(config.name), PreProcess(config.description)}
  /\ (history # <<>> /\ history[Len(history)].outcome.kind = "fulfilled")
       => \E pv \in CallValues :
            /\ AllResolve(precompiledNameFunction, pv)
            /\ AllResolve(precompiledDescriptionFunction, pv)
            /\ history[Len(history)].outcome =
                 OutcomeOf(SpansRendered(precompiledNameFunction, pv),
                           SpansRendered(precompiledDescriptionFunction, pv))

\* a call rendered a description with two top-level expressions around
\* literal text, one of them rendering an error tag
C13_Witness ==
  /\ history # <<>>
  /\ Len(precompiledDescriptionFunction.compiledVariableTemplateFns) >= 2
  /\ history[Len(history)].outcome.kind = "fulfilled"
  /\ Includes(history[Len(history)].outcome.description, "{cannot_coerce")

\* C14: white space in the variable text of an expression (after the
\* opening brace, before the closing one, around ::, between modifiers,
\* around comparators) never changes what the expression renders: the
\* expression written with it renders what the expression written without
\* it renders
C14_WhitespaceInsignificant ==
  (drawn.family = "whitespace" /\ history # <<>>)
    => /\ history[1].outcome.kind = "fulfilled"
       /\ history[1].outcome.name = history[1].outcome.description

\* the `}` at i of the working string closes no expression: no `{` on the
\* stack forms a recognised expression with it
ClosesNothing(c, i) ==
  /\ CharAt(c.str, i) = "}"
  /\ c.leftBracketIndices # <<>>
  /\ \A j \in 1..Len(c.leftBracketIndices) :
       ~MatchesExpression(RemoveAllWS(Slice(c.str, c.leftBracketIndices[j], i + 1)),
                          regexBuilder)

\* the example of an inner pair of braces that is no expression
InnerBracesExample == "{stream.proxied::istrue[\"{x}\"||\"n\"]}"

\* C15: when a `}` is scanned and no `{` on the stack forms a recognised
\* expression with it, the `}` stays literal and no stack entry is removed,
\* so that an earlier `{` that is still open is matched later: the outer
\* expression of {stream.proxied::istrue["{x}"||"n"]} is recognised and
\* compiled
C15_UnmatchedCloseKeepsStack ==
  /\ [][(pc \in {"ScanName", "ScanDescription"} /\ ClosesNothing(scan, scan.i + 1))
          => /\ scan'.str = scan.str
             /\ scan'.leftBracketIndices = scan.leftBracketIndices
             /\ scan'.compiledVariableTemplateFns = scan.compiledVariableTemplateFns
             /\ scan'.i = scan.i + 1]_vars
  /\ [](\A t \in {"name", "description"} :
          (config[t] = InnerBracesExample /\ compiled[t].state = "resolved")
            => /\ compiled[t].fn.str = PLACEHOLDER
               /\ Len(compiled[t].fn.compiledVariableTemplateFns) = 1
               /\ compiled[t].fn.compiledVariableTemplateFns[1].matched
                    = InnerBracesExample)

\* the scan of the example has just passed the `}` of {x}, both `{` still
\* on the stack
C15_Witness ==
  /\ pc = "ScanName"
  /\ config.name = InnerBracesExample
  /\ scan.i >= 0
  /\ ClosesNothing(scan, scan.i)
  /\ Len(scan.leftBracketIndices) = 2

\* both compiled functions are assigned
BothAssigned == ~precompiledNameFunction.null /\ ~precompiledDescriptionFunction.null

\* C16: on every instance the compilation promise is created once, by the
\* constructor, and never replaced (its only change is that it settles,
\* once); the two compiled functions are assigned once, together, in the step
\* that fulfils the promise, and never change afterwards; and no format()
\* call evaluates a template before both are assigned, however the calls
\* interleave with the background compilation
C16_CompiledOnceBeforeUse ==
  /\ [][compilationPromise' # compilationPromise
          => /\ compilationPromise.state = "pending"
             /\ compilationPromise'.state \in {"fulfilled", "rejected"}]_vars
  /\ [][(\/ precompiledNameFunction' # precompiledNameFunction
         \/ precompiledDescriptionFunction' # precompiledDescriptionFunction)
          => /\ precompiledNameFunction = NullFn
             /\ precompiledDescriptionFunction = NullFn
             /\ compilationPromise.state = "pending"
             /\ compilationPromise'.state = "fulfilled"
             /\ BothAssigned']_vars
  /\ [](compilationPromise.state = "fulfilled" => BothAssigned)
  /\ [][(history' # history /\ history'[Len(history')].outcome.kind = "fulfilled")
          => BothAssigned /\ compilationPromise.state = "fulfilled"]_vars

\* a format() call waits at its await while both templates are compiled and
\* neither function is assigned yet
C16_Witness ==
  /\ pc = "Constructed"
  /\ pending # <<>>
  /\ compilationPromise.state = "pending"
  /\ compiled.name.state = "resolved" /\ compiled.description.state = "resolved"
  /\ precompiledNameFunction.null /\ precompiledDescriptionFunction.null

\* the modifier patterns parseModifiedVariable(baseString) builds: one, with
\* buildModifierRegexPattern, when the segment names a field of the
\* namespace and text follows the field name
ModifierPatternsBuilt(afterType, propertyName) ==
  IF propertyName # "" /\ SliceFrom(afterType, Len(propertyName)) # "" THEN 1 ELSE 0

\* the same, from the segment text
SegmentPatternsBuilt(baseString, variableType, shape) ==
  IF variableType = "" THEN 0
  ELSE ModifierPatternsBuilt(
         SliceFrom(baseString, Len(variableType) + Len(".")),
         find(SectionFields(shape, variableType),
              ToLowerCase(LeadingLetters(
                SliceFrom(baseString, Len(variableType) + Len("."))))))

RECURSIVE SumOf(_)
SumOf(counts) == IF counts = <<>> THEN 0 ELSE Head(counts) + SumOf(Tail(counts))

\* the grammar patterns one run of the resolver of a node builds: the
\* comparator pattern parseVariable splits its text with, and the modifier
\* pattern of each segment that has modifiers
GrammarPatternsBuilt(node, pv) ==
  IF ~Resolves(node, pv) THEN 0
  ELSE 1 + SumOf([k \in 1..((Len(SplitOf(node, pv)) + 1) \div 2) |->
                    SegmentPatternsBuilt(
                      SplitOf(node, pv)[2 * k - 1],
                      find([n \in 1..Len(regexBuilder) |-> regexBuilder[n].key],
                           ToLowerCase(BeforeFirstDot(SplitOf(node, pv)[2 * k - 1]))),
                      regexBuilder)])

\* C17: grammar patterns are built, and expression text is split into
\* segments, comparators and modifiers, only while the formatter is
\* constructed and its templates are compiled: a format() call builds no
\* grammar pattern, so the number of patterns built stays what it was
C17_NoPatternBuiltWhenFormatting ==
  [][(history' # history /\ history'[Len(history')].outcome.kind = "fulfilled")
       => \A node \in CompiledNodes :
            GrammarPatternsBuilt(
              node, convertStreamToParseValue(history'[Len(history')].stream,
                                              userData, 0)) = 0]_vars

\* C18: the prefix modifiers =, >=, >, <=, < compare numerically when the
\* field value and the literal both parse as numbers once thousands
\* separators are removed (1,000 against 999), and as lower-cased strings
\* otherwise: against a size, a literal written 1,000 compares as the
\* literal 1000 does
C18_ThousandsSeparatorNumeric ==
  (drawn.family = "thousands" /\ history # <<>>)
    => /\ history[1].outcome.kind = "fulfilled"
       /\ history[1].outcome.name = history[1].outcome.description

\* what the three lines of SentinelTemplate come to for a record: the first
\* broken in two, the second dropped, the third the title, dropped when the
\* record has none
SentinelLines(stream) ==
  IF "parsedFile.title" \in DOMAIN stream /\ HasNonWS(stream["parsedFile.title"].s)
  THEN "a\nb\n" \o stream["parsedFile.title"].s
  ELSE "a\nb"

\* C19: once the expressions are substituted, every line of the output that
\* holds the remove-line sentinel is dropped and every forced-newline
\* sentinel is replaced by a line break, in whatever letter case the
\* template writes {tools.removeLine} and {tools.newLine}
C19_SentinelsInAnyCase ==
  (drawn.family = "sentinels" /\ history # <<>>)
    => /\ history[1].outcome.kind = "fulfilled"
       /\ history[1].outcome.name = SentinelLines(history[1].stream)
       /\ history[1].outcome.description = SentinelLines(history[1].stream)

\* a template that writes both sentinels in upper case was formatted for a
\* record with a title
C19_Witness ==
  /\ drawn.family = "sentinels"
  /\ config.name = SentinelTemplate("{TOOLS.NEWLINE}", "{TOOLS.REMOVELINE}")
  /\ history # <<>>
  /\ history[1].outcome.name = "a\nb\nX"

\* C20: the names in an expression are case-insensitive: writing a section,
\* field, modifier or comparator name in another letter case
\* ({STREAM.TITLE::UPPER}, ::AND::) does not change what the expression
\* renders
C20_NamesCaseInsensitive ==
  (drawn.family = "case" /\ history # <<>>)
    => /\ history[1].outcome.kind = "fulfilled"
       /\ history[1].outcome.name = history[1].outcome.description

\* ---------------------------------------------------------------------------
\* Chains of array modifiers

\* what the modifier yields.array is documented to yield for the array
ArrayYielded(yielding, arr) ==
  IF yielding = "sort" THEN SortStrings(arr) ELSE ReverseSeq(arr)

\* what the array modifier `after` gives for an array, as rendered text
AppliedToArray(after, arr) ==
  IF after = "first" THEN arr[1]
  ELSE IF after = "last" THEN arr[Len(arr)]
  ELSE IF after = "length" THEN NumToString(Len(arr))
  ELSE JoinWith(arr, " | ")

\* the languages of the record formatted last, when it has any
LanguagesFormatted ==
  LET v == convertStreamToParseValue(history[Len(history)].stream, userData, 0)
             .fields["stream.languages"]
  IN  IF v.t = "array" THEN v.a ELSE <<>>

\* C29: the array modifiers sort and reverse yield the sorted / reversed
\* array, so an array modifier written after them in the same chain
\* (::sort::join(' | '), ::reverse::first, ::sort::length) is applied to that
\* array and the chain resolves without an unknown-modifier error
C29_ArrayModifierAfterSortReverse ==
  (drawn.family = "arraychain" /\ history # <<>> /\ LanguagesFormatted # <<>>)
    => /\ history[Len(history)].outcome.kind = "fulfilled"
       /\ history[Len(history)].outcome.name
            = AppliedToArray(WrittenAfter[drawn.after],
                             ArrayYielded(ArrayYielding[drawn.yielding],
                                          LanguagesFormatted))

\* ---------------------------------------------------------------------------
\* The scan loop of compileTemplateHelper

\* the compilation runs synchronously inside the constructor: an iteration of
\* the loop that can run does run, and so does the return that follows it.
\* These are WF_vars(ScanStep) and WF_vars(ScanEnd) with ENABLED written out
\* as the guard of the action (ScanIteration and CompiledFn are total)
ScanStepFair ==
  []<>~(pc \in {"ScanName", "ScanDescription"} /\ ~ScanDone(scan))
    \/ []<><<ScanStep>>_vars

ScanEndFair ==
  []<>~(pc \in {"ScanName", "ScanDescription"} /\ ScanDone(scan))
    \/ []<><<ScanEnd>>_vars

SpecScan == Init /\ [][Next]_vars /\ ScanStepFair /\ ScanEndFair

Scanning == pc \in {"ScanName", "ScanDescription"}

\* the iteration left the working string alone and moved one index on
Advanced == scan'.str = scan.str /\ scan'.i = scan.i + 1

\* the iteration replaced the span from some `{` up to the `}` it scanned by
\* the placeholder, and resumes on the placeholder
ReplacedSpan ==
  \E l \in 0..(scan.i + 1) :
    /\ CharAt(scan.str, l) = "{"
    /\ scan'.str = Slice(scan.str, 0, l) \o PLACEHOLDER \o SliceFrom(scan.str, scan.i + 2)
    /\ scan'.i = l
    /\ Len(scan'.str) < Len(scan.str)

\* C25: the scan loop of compileTemplateHelper terminates for every template:
\* every iteration either advances the scan index over an unchanged working
\* string or replaces a matched span by the one-character placeholder, which
\* strictly shortens the working string
C25_ScanLoopTerminates ==
  /\ [][(Scanning /\ pc' = pc) => (Advanced \/ ReplacedSpan)]_vars
  /\ Len(PLACEHOLDER) = 1
  /\ Scanning ~> ~Scanning

\* a scan that has replaced a span follows it with further iterations
C25_Witness ==
  /\ Scanning
  /\ scan.compiledVariableTemplateFns # <<>>
  /\ scan.i + 1 < Len(scan.str)
  /\ Len(scan.str) < Len(PreProcess(config[IF pc = "ScanName" THEN "name" ELSE "description"]))

\* C30: during compilation every index on the open-brace stack is the
\* position of a `{` in the current working string and is smaller than the
\* scan index, also after a matched span below the top of the stack has been
\* replaced by the placeholder
C30_StackIndicesAreOpenBraces ==
  Scanning =>
    \A k \in 1..Len(scan.leftBracketIndices) :
      /\ scan.leftBracketIndices[k] < scan.i + 1
      /\ CharAt(scan.str, scan.leftBracketIndices[k]) = "{"

\* ---------------------------------------------------------------------------
\* _searchTorrents

SearchOver == searchPc \in {"returned", "thrown"}

\* C21: in every _searchTorrents variant with a search deadline the call
\* completes when all searches have finished or when the deadline timer
\* fires, whichever comes first, without waiting for searches still in
\* flight; it then returns the torrents collected so far, and it throws if
\* and only if no torrent was collected
C21_CompletesAtDeadlineOrAllDone ==
  /\ [][(searchPc = "race" /\ searchPc' # "race")
          => /\ SearchOver'
             /\ deadline' = "fired" \/ AllSettled(searchTasks')
             /\ searchPc' = "thrown" <=> torrents' = <<>>]_vars
  /\ [](searchPc = "race" => deadline = "set" /\ ~AllSettled(searchTasks))
  /\ (searchPc = "race") ~> SearchOver

\* the deadline ended a call that had collected torrents while a search was
\* still in flight
C21_Witness ==
  /\ searchPc = "returned"
  /\ deadline = "fired"
  /\ torrents # <<>>
  /\ \E t \in DOMAIN searchTasks : searchTasks[t].state = "inflight"

\* the deduplication key of a collected torrent
TorrentKey(torrent) ==
  IF torrent.hash # "" THEN torrent.hash ELSE torrent.downloadUrl

\* C26: in the list produced by _searchTorrents no two torrents have the same
\* deduplication key (the info hash if the result has one, otherwise its
\* download URL), for every number of queries and indexers and every
\* interleaving of the search tasks
C26_NoDuplicateKeys ==
  \A i, j \in DOMAIN torrents :
    i # j => TorrentKey(torrents[i]) # TorrentKey(torrents[j])

\* two searches have settled and the list holds torrents of both keys kinds
C26_Witness ==
  /\ Len(torrents) = 2
  /\ Cardinality({t \in DOMAIN searchTasks : searchTasks[t].state = "done"}) >= 2
  /\ \E i \in DOMAIN torrents : torrents[i].hash = ""

\* C27: the torrent list returned by _searchTorrents is final at the moment
\* of return: searches still in flight when the deadline fires do not add
\* torrents to the returned list after the caller has received it
C27_ReturnedListIsFinal ==
  [][searchPc = "returned" => torrents' = torrents]_vars

\* ---------------------------------------------------------------------------
\* The "are you still there" gate

\* the requests so far are series requests through the enabled gate, each
\* arriving within the cooldown window of the one before
ConsecutiveEpisodes ==
  /\ areYouStillThere.enabled
  /\ \A r \in DOMAIN requests : requests[r].type = "series"
  /\ \A r \in DOMAIN requests :
       r > 1 => requests[r].now - requests[r - 1].now <= Cooldown

\* every request was answered before the next one arrived
OneAtATime ==
  \A e \in DOMAIN gateLog :
    /\ gateLog[e][1] = (e + 1) \div 2
    /\ (e % 2 = 1) <=> (gateLog[e][2] = "arrives")

\* C22: with the gate enabled and episodesBeforeCheck = N, series requests
\* each arriving within the cooldown window of the previous one are served
\* streams for N consecutive episodes, and the next request after those N is
\* answered with an empty stream list and resets the stored count to 0
C22_ServesNThenChecks ==
  (ConsecutiveEpisodes /\ OneAtATime)
    => \A r \in DOMAIN requests :
         requests[r].pc = "done"
           => requests[r].answer =
                IF r % (areYouStillThere.episodesBeforeCheck + 1) = 0
                THEN "empty" ELSE "streams"

\* C28: every gated series request advances the stored count of the user by
\* exactly one or resets it, so k requests inside the cooldown window are
\* counted as k also when requests of the same user overlap: no update is
\* lost between the cache read and the cache write of two requests
C28_NoLostUpdate ==
  (/\ ConsecutiveEpisodes
   /\ requests # <<>>
   /\ \A r \in DOMAIN requests : requests[r].pc = "done")
    => stored.count = Len(requests) % areYouStillThere.episodesBeforeCheck

\* how many iterations the rendering of a record by a new instance is
\* followed through
MaxFresh == 6

\* format(stream) of a new instance constructed with the same config: the
\* description is rendered with the cache the name left
FreshFormat(stream) ==
  Only({Only({[diverged |-> name.diverged \/ description.diverged,
               name |-> TextOrBlank(name.value),
               description |-> TextOrBlank(description.value)] :
                description \in {CachedParseString(cacheConfig.description,
                                                   CachedParseValue(stream),
                                                   name.cache, MaxFresh)}}) :
          name \in {CachedParseString(cacheConfig.name, CachedParseValue(stream),
                                      <<>>, MaxFresh)}})

\* the k-th format() call returned what a new instance returns for its record
ReturnedOwnRendering(k) ==
  Only({fresh.diverged
        \/ (/\ formatted[k].name = fresh.name
            /\ formatted[k].description = fresh.description) :
          fresh \in {FreshFormat(formatted[k].stream)}})

\* C23: format(B) called after format(A) on the same instance of the
\* cache-based formatter returns the rendering of record B: no value the
\* LocalCache stored while formatting one record is returned while
\* formatting another record for which it would be computed differently
C23_FormatReturnsRenderingOfRecord ==
  \A k \in DOMAIN formatted : ReturnedOwnRendering(k)

\* a parseStringHelper loop is running
Parsing == parse.phase \in {"name", "description"}

\* the iteration the running loop takes next leaves str, re.lastIndex and
\* the cache exactly as they are: the loop takes it again, for ever
IterationRepeats ==
  /\ Parsing
  /\ Only({/\ ~step.done /\ ~step.diverged
           /\ step.str = parse.str
           /\ step.lastIndex = parse.lastIndex
           /\ step.cache = localCache :
             step \in {ParseIteration(parse.str, parse.lastIndex,
                                      CachedParseValue(parse.stream), localCache,
                                      MaxIterations)}})

\* C24: the match-and-replace loop of parseStringHelper of the cache-based
\* formatter terminates for every template and every record, also when the
\* values of the record hold `{section.field}` text: the loop never comes
\* to an iteration that only repeats itself
C24_ParseLoopTerminates == ~IterationRepeats

====
